---- MODULE Spec2Model ----
(***************************************************************************)
(* Group-order coordination API (iPaidUpay server).                        *)
(*                                                                         *)
(* The model follows the JavaScript services (groupService.js and          *)
(* orderService.js), which are the ones written against the current        *)
(* tables Group, GroupMenu, GroupOrder and UserOrder.  The store is a      *)
(* relational database reached through Prisma: every awaited Prisma call   *)
(* commits on its own, and only the calls handed to prisma.$transaction    *)
(* commit or roll back together.                                           *)
(*                                                                         *)
(* The two services name the columns of UserOrder differently (orderId /   *)
(* productId in orderService.js, groupOrderId / menuId in groupService.js  *)
(* and in the last migration); the model treats each pair as one column.   *)
(***************************************************************************)
EXTENDS Integers, Sequences, FiniteSets, TLC

(***************************************************************************)
(* Bounds of the model.                                                    *)
(***************************************************************************)
MaxUsers == 2        \* registered users are 1..MaxUsers
MaxGroups == 2       \* group ids ever issued
MaxMenu == 3         \* product (GroupMenu) ids ever issued
MaxOrders == 4       \* GroupOrder ids ever issued
MaxOps == 2          \* operations in one behaviour (also the clock's range)

(***************************************************************************)
(* Values.                                                                 *)
(***************************************************************************)
\* null / undefined id: a falsy id in the code (p.id, inputItem.productId, groupId)
NULL == 0

Users == 1..MaxUsers
\* an id that is no row of User: the foreign keys on GroupOrder.userId reject it
Ghost == MaxUsers + 1
GroupIds == 1..MaxGroups
MenuIds == 1..MaxMenu
OrderIds == 1..MaxOrders

Names == {"Fries", "Chips"}
Prices == {40, 45}
Quantities == {1, 4}

\* title, startTime, endTime as the client sends them
Details == {[title |-> "KFC", startTime |-> 15, endTime |-> 17],
            [title |-> "BK", startTime |-> 14, endTime |-> 16]}

(***************************************************************************)
(* The store.                                                              *)
(*   groups     : id -> [title, startTime, endTime, status, creatorId]     *)
(*   groupMenu  : id -> [name, price, groupId]                             *)
(*   groupOrder : id -> [userId, groupId, paymentStatus, updatedAt]        *)
(*   userOrder  : the line items, in insertion order, each                 *)
(*                [groupOrderId, name, price, quantity, menuId]            *)
(*   nextId     : the next id each table issues                            *)
(*   now        : the clock; it advances with every operation              *)
(*   last       : the last call: operation, arguments, result, and the     *)
(*                store as it was when the call began                      *)
(*   calls      : the requests in progress, one per slot                   *)
(*   friends    : the rows <<user, friend>> of the friends relation        *)
(***************************************************************************)
VARIABLES groups, groupMenu, groupOrder, userOrder, nextId, now, last, calls, friends

vars == <<groups, groupMenu, groupOrder, userOrder, nextId, now, last, calls, friends>>

store == <<groups, groupMenu, groupOrder, userOrder, nextId>>

\* the store as one record, so that an operation is a function of the store
DB == [groups |-> groups, groupMenu |-> groupMenu, groupOrder |-> groupOrder,
       userOrder |-> userOrder, nextId |-> nextId]

EmptyFn == [x \in {} |-> x]

EmptyDB == [groups |-> EmptyFn, groupMenu |-> EmptyFn, groupOrder |-> EmptyFn,
            userOrder |-> <<>>, nextId |-> [group |-> 1, menu |-> 1, order |-> 1]]

(***************************************************************************)
(* Helpers on sequences and tables.                                        *)
(***************************************************************************)
Range(s) == {s[i] : i \in 1..Len(s)}

\* sequences over S of length at most n
SeqsUpTo(S, n) == UNION {[1..k -> S] : k \in 0..n}

\* the table t without the rows whose id is in ids (deleteMany)
DropRows(t, ids) == [i \in (DOMAIN t) \ ids |-> t[i]]

\* the table t with rows[1], rows[2], ... inserted under the ids first, first+1, ...
AddRows(t, first, rows) ==
    [i \in (DOMAIN t) \cup (first..(first + Len(rows) - 1)) |->
        IF i \in DOMAIN t THEN t[i] ELSE rows[i - first + 1]]

\* JavaScript's new Set(s) spread back into an array: first occurrences, in order
RECURSIVE Dedup(_)
Dedup(s) ==
    IF s = <<>> THEN <<>>
    ELSE LET front == Dedup(SubSeq(s, 1, Len(s) - 1))
             x == s[Len(s)]
         IN IF x \in Range(front) THEN front ELSE Append(front, x)

\* the GroupOrder ids of group g
OrdersOfGroup(db, g) == {o \in DOMAIN db.groupOrder : db.groupOrder[o].groupId = g}

\* the GroupMenu ids of group g
MenuOfGroup(db, g) == {p \in DOMAIN db.groupMenu : db.groupMenu[p].groupId = g}

\* the line items of the orders in os, in stored order
ItemsOfOrders(db, os) == SelectSeq(db.userOrder, LAMBDA it : it.groupOrderId \in os)

\* ids of a table in ascending order, as a sequence
RECURSIVE SortedIds(_)
SortedIds(S) ==
    IF S = {} THEN <<>>
    ELSE LET m == CHOOSE x \in S : \A y \in S : x <= y
         IN <<m>> \o SortedIds(S \ {m})

\* Array.prototype.map
MapSeq(s, F(_)) == [i \in 1..Len(s) |-> F(s[i])]

(***************************************************************************)
(* The outcome of a call: the store it leaves and what it returns or       *)
(* throws (the thrown message, as far as the controllers tell them apart). *)
(***************************************************************************)
OK == "ok"
ErrGroupNotFound == "Group not found"
ErrNotAuthorized == "Not authorized"
ErrCannotDeleteItem == "Cannot delete item"
ErrCannotDeleteGroup == "Cannot delete group"
ErrAccessDenied == "Access denied to this group"
ErrGroupClosed == "Group is closed"
ErrGroupIdRequired == "Group ID is required"
ErrInvalidStatus == "Invalid status"
ErrOrderNotFound == "Order not found"
\* an error thrown by Prisma itself (foreign key violation, record to update not found)
ErrPrisma == "PrismaClientKnownRequestError"
ErrValidation == "Title, start time, and end time are required"

Outcome(db, result) == [db |-> db, result |-> result]

(***************************************************************************)
(* GroupService.createGroup: one nested prisma.group.create, which Prisma  *)
(* runs as one transaction.                                                *)
(***************************************************************************)
\* the line items createGroup stores for the creator: no product link
InitialItems(orderId, initialOrder) ==
    MapSeq(initialOrder, LAMBDA io : [groupOrderId |-> orderId, name |-> io.name,
                                      price |-> io.price, quantity |-> io.quantity,
                                      menuId |-> NULL])

CreateGroupRun(db, userId, data, t) ==
    LET gid == db.nextId.group
        invited == data.invitedUserIds
        creatorOrder == db.nextId.order
        orderRows == <<[userId |-> userId, groupId |-> gid, paymentStatus |-> "PAID",
                        updatedAt |-> t]>>
                     \o MapSeq(invited, LAMBDA uid : [userId |-> uid, groupId |-> gid,
                                                      paymentStatus |-> "UNPAID",
                                                      updatedAt |-> t])
        menuRows == MapSeq(data.products, LAMBDA p : [name |-> p.name, price |-> p.price,
                                                      groupId |-> gid])
    IN IF \E i \in 1..Len(invited) : invited[i] \notin Users
       THEN Outcome(db, ErrPrisma)
       ELSE Outcome(
              [groups |-> AddRows(db.groups, gid,
                            <<[title |-> data.title, startTime |-> data.startTime,
                               endTime |-> data.endTime, status |-> "OPEN",
                               creatorId |-> userId]>>),
               groupMenu |-> AddRows(db.groupMenu, db.nextId.menu, menuRows),
               groupOrder |-> AddRows(db.groupOrder, creatorOrder, orderRows),
               userOrder |-> db.userOrder \o InitialItems(creatorOrder, data.initialOrder),
               nextId |-> [group |-> gid + 1,
                           menu |-> db.nextId.menu + Len(menuRows),
                           order |-> creatorOrder + Len(orderRows)]],
              OK)

(***************************************************************************)
(* GroupService.updateGroup.  The calls are awaited one after the other    *)
(* and each commits on its own; only the product writes at the end go      *)
(* through prisma.$transaction.                                            *)
(*   data: [title, startTime, endTime, hasProducts, products,              *)
(*          invitedUserIds]; products is a list of [id, name, price],      *)
(*          id = NULL for a new product; hasProducts is FALSE when the     *)
(*          caller sent no products array.                                 *)
(***************************************************************************)
\* new Date(startTime) or new Date(endTime) of a body without them is an
\* invalid date, which prisma.group.update rejects
InvalidDates(data) == data.startTime = NULL \/ data.endTime = NULL

\* prisma.group.update of title, startTime, endTime; "" stands for a title the
\* body does not carry (title: undefined leaves the column alone)
BasicDetails(db, groupId, data) ==
    [db EXCEPT !.groups[groupId] = [@ EXCEPT !.title = IF data.title = "" THEN @
                                                       ELSE data.title,
                                             !.startTime = data.startTime,
                                             !.endTime = data.endTime]]

\* userIds of group.orders, as read when the call began
ExistingUserIds(db, groupId) ==
    {db.groupOrder[o].userId : o \in OrdersOfGroup(db, groupId)}

\* invitedUserIds || []: a request body without the field counts as an empty list
InvitedOrEmpty(data) ==
    IF "invitedUserIds" \in DOMAIN data THEN data.invitedUserIds ELSE <<>>

\* targetUserIds as it would be without the Set
TargetUserIdsNoSet(userId, invitedUserIds) == Append(invitedUserIds, userId)

\* [...targetUserIds]: new Set(invitedUserIds || []) with the caller added last
TargetUserIds(userId, invitedUserIds) == Dedup(Append(invitedUserIds, userId))

\* toAdd: the target users without an order
ToAdd(existing, userId, invitedUserIds) ==
    SelectSeq(TargetUserIds(userId, invitedUserIds), LAMBDA uid : uid \notin existing)

\* toRemove: the members that are neither invited nor the caller
ToRemove(existing, userId, invitedUserIds) ==
    {uid \in existing : uid \notin Range(TargetUserIds(userId, invitedUserIds))
                        /\ uid # userId}

\* prisma.groupOrder.createMany for toAdd (paymentStatus and updatedAt by default)
AddMembers(db, groupId, toAdd, t) ==
    [db EXCEPT !.groupOrder = AddRows(@, db.nextId.order,
                                  MapSeq(toAdd, LAMBDA uid : [userId |-> uid,
                                      groupId |-> groupId, paymentStatus |-> "UNPAID",
                                      updatedAt |-> t])),
               !.nextId.order = @ + Len(toAdd)]

\* remove uninvited as it would be if only the line items went and the
\* orders stayed
RemoveMembersItemsOnly(db, groupId, toRemove) ==
    LET orderIds == {o \in OrdersOfGroup(db, groupId) : db.groupOrder[o].userId \in toRemove}
    IN [db EXCEPT !.userOrder = SelectSeq(@, LAMBDA it : it.groupOrderId \notin orderIds)]

\* remove uninvited: their line items first, then their orders
RemoveMembers(db, groupId, toRemove) ==
    LET orderIds == {o \in OrdersOfGroup(db, groupId) : db.groupOrder[o].userId \in toRemove}
    IN [db EXCEPT !.userOrder = SelectSeq(@, LAMBDA it : it.groupOrderId \notin orderIds),
                  !.groupOrder = DropRows(@, orderIds)]

\* products.filter(p => p.id) and products.filter(p => !p.id)
WithId(products) == SelectSeq(products, LAMBDA p : p.id # NULL)
WithoutId(products) == SelectSeq(products, LAMBDA p : p.id = NULL)

\* keepIds
KeepIds(products) == {p.id : p \in Range(WithId(products))}

\* productsToDelete: the group's products whose id is not in keepIds
ProductsToDelete(db, groupId, products) == MenuOfGroup(db, groupId) \ KeepIds(products)

\* usedItem as it would be without the legacy name match: by product id only
UsedItemByIdOnly(db, groupId, idsToDelete) ==
    \E i \in 1..Len(db.userOrder) :
        /\ db.userOrder[i].groupOrderId \in OrdersOfGroup(db, groupId)
        /\ db.userOrder[i].menuId \in idsToDelete

\* usedItem: a line item of the group that carries a doomed product's id or name
UsedItem(db, groupId, idsToDelete) ==
    LET namesToDelete == {db.groupMenu[p].name : p \in idsToDelete}
    IN \E i \in 1..Len(db.userOrder) :
          /\ db.userOrder[i].groupOrderId \in OrdersOfGroup(db, groupId)
          /\ \/ db.userOrder[i].menuId \in idsToDelete
             \/ db.userOrder[i].name \in namesToDelete

\* the updates: prisma.groupMenu.update({ where: { id: p.id } }) for each entry with an id
RECURSIVE MenuUpdates(_, _)
MenuUpdates(menu, ps) ==
    IF ps = <<>> THEN menu
    ELSE LET p == Head(ps)
         IN MenuUpdates([menu EXCEPT ![p.id] = [@ EXCEPT !.name = p.name,
                                                         !.price = p.price]],
                        Tail(ps))

\* the creates: prisma.groupMenu.create for each entry without an id
MenuCreates(db, groupId, ps) ==
    [db EXCEPT !.groupMenu = AddRows(@, db.nextId.menu,
                                 MapSeq(ps, LAMBDA p : [name |-> p.name, price |-> p.price,
                                                        groupId |-> groupId])),
               !.nextId.menu = @ + Len(ps)]

\* deleteOp as it would be if the foreign key did not clear the links: the
\* line items keep pointing at the deleted products
MenuDeleteKeepLinks(db, ids) == [db EXCEPT !.groupMenu = DropRows(@, ids)]

\* deleteOp: the products go, and the foreign key (ON DELETE SET NULL) clears the
\* link of any line item that pointed at them
MenuDelete(db, ids) ==
    [db EXCEPT !.groupMenu = DropRows(@, ids),
               !.userOrder = MapSeq(@, LAMBDA it :
                                 IF it.menuId \in ids THEN [it EXCEPT !.menuId = NULL]
                                 ELSE it)]

\* the sync entries as they would be without the test for a changed field
ChangedOrNot(db, groupId, products) ==
    SelectSeq(products, LAMBDA p : p.id # NULL /\ p.id \in MenuOfGroup(db, groupId))

\* the entries for which updateGroup pushes sync operations: an id of a product
\* of this group whose stored name or price differs
Changed(db, groupId, products) ==
    SelectSeq(products, LAMBDA p :
        /\ p.id # NULL
        /\ p.id \in MenuOfGroup(db, groupId)
        /\ \/ db.groupMenu[p.id].name # p.name
           \/ db.groupMenu[p.id].price # p.price)

\* one entry's two updateMany calls: by product id, then by the old name among
\* the group's unlinked items
SyncOne(db, groupId, oldName, p) ==
    LET byId == MapSeq(db.userOrder, LAMBDA it :
                    IF it.menuId = p.id
                    THEN [it EXCEPT !.name = p.name, !.price = p.price]
                    ELSE it)
        byName == MapSeq(byId, LAMBDA it :
                    IF /\ it.groupOrderId \in OrdersOfGroup(db, groupId)
                       /\ it.name = oldName
                       /\ it.menuId = NULL
                    THEN [it EXCEPT !.name = p.name, !.price = p.price, !.menuId = p.id]
                    ELSE it)
    IN [db EXCEPT !.userOrder = byName]

\* syncOps, run in order; oldMenu is existingProducts, read before the transaction
RECURSIVE SyncOps(_, _, _, _)
SyncOps(db, groupId, oldMenu, ps) ==
    IF ps = <<>> THEN db
    ELSE SyncOps(SyncOne(db, groupId, oldMenu[Head(ps).id].name, Head(ps)),
                 groupId, oldMenu, Tail(ps))

\* the product sync of updateGroup on the store db
ProductSync(db, groupId, products) ==
    LET toDelete == ProductsToDelete(db, groupId, products)
        updatable == \A p \in Range(WithId(products)) : p.id \in DOMAIN db.groupMenu
        updated == [db EXCEPT !.groupMenu = MenuUpdates(@, WithId(products))]
        created == MenuCreates(updated, groupId, WithoutId(products))
    IN IF toDelete # {}
       THEN IF UsedItem(db, groupId, toDelete)
            THEN Outcome(db, ErrCannotDeleteItem)
            ELSE IF ~updatable
                 THEN Outcome(db, ErrPrisma)
                 ELSE Outcome(MenuDelete(created, toDelete), OK)
       ELSE IF ~updatable
            THEN Outcome(db, ErrPrisma)
            ELSE Outcome(SyncOps(created, groupId, db.groupMenu,
                                 Changed(db, groupId, products)), OK)

\* the member sync as it would be if a request without invitedUserIds
\* skipped it, as a request without products skips the product sync
MemberSyncSkipAbsent(db, existing, userId, groupId, data, t) ==
    LET toAdd == ToAdd(existing, userId, InvitedOrEmpty(data))
        toRemove == ToRemove(existing, userId, InvitedOrEmpty(data))
    IN IF "invitedUserIds" \notin DOMAIN data
       THEN Outcome(db, OK)
       ELSE IF \E uid \in Range(toAdd) : uid \notin Users
       THEN Outcome(db, ErrPrisma)
       ELSE Outcome(RemoveMembers(AddMembers(db, groupId, toAdd, t), groupId, toRemove), OK)

\* the member sync of updateGroup; existing is read from the store the call began with
MemberSync(db, existing, userId, groupId, data, t) ==
    LET toAdd == ToAdd(existing, userId, InvitedOrEmpty(data))
        toRemove == ToRemove(existing, userId, InvitedOrEmpty(data))
    IN IF \E uid \in Range(toAdd) : uid \notin Users
       THEN Outcome(db, ErrPrisma)
       ELSE Outcome(RemoveMembers(AddMembers(db, groupId, toAdd, t), groupId, toRemove), OK)

\* updateGroup as it would be with the status check of updateOrder: a CLOSED
\* group is left alone
UpdateGroupRunOpenOnly(db, userId, groupId, data, t) ==
    IF groupId \notin DOMAIN db.groups THEN Outcome(db, ErrGroupNotFound)
    ELSE IF db.groups[groupId].creatorId # userId THEN Outcome(db, ErrNotAuthorized)
    ELSE IF db.groups[groupId].status = "CLOSED" THEN Outcome(db, ErrGroupClosed)
    ELSE IF InvalidDates(data) THEN Outcome(db, ErrPrisma)
    ELSE LET detailed == BasicDetails(db, groupId, data)
             synced == MemberSync(detailed, ExistingUserIds(db, groupId), userId,
                                  groupId, data, t)
         IN IF synced.result # OK THEN synced
            ELSE IF data.hasProducts THEN ProductSync(synced.db, groupId, data.products)
            ELSE synced

\* updateGroup as it would be if the in-use check came before the member
\* sync: the items of the members about to be removed still count
UpdateGroupRunCheckFirst(db, userId, groupId, data, t) ==
    IF groupId \notin DOMAIN db.groups THEN Outcome(db, ErrGroupNotFound)
    ELSE IF db.groups[groupId].creatorId # userId THEN Outcome(db, ErrNotAuthorized)
    ELSE IF InvalidDates(data) THEN Outcome(db, ErrPrisma)
    ELSE IF /\ data.hasProducts
            /\ ProductsToDelete(db, groupId, data.products) # {}
            /\ UsedItem(db, groupId, ProductsToDelete(db, groupId, data.products))
         THEN Outcome(db, ErrCannotDeleteItem)
    ELSE LET detailed == BasicDetails(db, groupId, data)
             synced == MemberSync(detailed, ExistingUserIds(db, groupId), userId,
                                  groupId, data, t)
         IN IF synced.result # OK THEN synced
            ELSE IF data.hasProducts THEN ProductSync(synced.db, groupId, data.products)
            ELSE synced

UpdateGroupRun(db, userId, groupId, data, t) ==
    IF groupId \notin DOMAIN db.groups THEN Outcome(db, ErrGroupNotFound)
    ELSE IF db.groups[groupId].creatorId # userId THEN Outcome(db, ErrNotAuthorized)
    ELSE IF InvalidDates(data) THEN Outcome(db, ErrPrisma)
    ELSE LET detailed == BasicDetails(db, groupId, data)
             synced == MemberSync(detailed, ExistingUserIds(db, groupId), userId,
                                  groupId, data, t)
         IN IF synced.result # OK THEN synced
            ELSE IF data.hasProducts THEN ProductSync(synced.db, groupId, data.products)
            ELSE synced

(***************************************************************************)
(* GroupService.deleteGroup.                                               *)
(***************************************************************************)
\* unpaidOrders as it would be if empty orders did not count ("PAID or empty")
HasUnpaidOrderWithItems(db, groupId) ==
    \E o \in OrdersOfGroup(db, groupId) :
        /\ db.groupOrder[o].paymentStatus = "UNPAID"
        /\ ItemsOfOrders(db, {o}) # <<>>

\* unpaidOrders: an order of the group with paymentStatus UNPAID
HasUnpaidOrder(db, groupId) ==
    \E o \in OrdersOfGroup(db, groupId) : db.groupOrder[o].paymentStatus = "UNPAID"

\* the $transaction of deleteGroup as it would be with the products' deleteMany
\* lacking its where clause: every group's products go
DeleteGroupTxAllMenus(db, groupId) ==
    LET orderIds == OrdersOfGroup(db, groupId)
        noItems == [db EXCEPT !.userOrder =
                        SelectSeq(@, LAMBDA it : it.groupOrderId \notin orderIds)]
        noOrders == [noItems EXCEPT !.groupOrder = DropRows(@, OrdersOfGroup(db, groupId))]
        noMenu == MenuDelete(noOrders, DOMAIN db.groupMenu)
    IN [noMenu EXCEPT !.groups = DropRows(@, {groupId})]

\* the $transaction of deleteGroup: line items, orders, products, the group
DeleteGroupTx(db, groupId) ==
    LET orderIds == OrdersOfGroup(db, groupId)
        noItems == [db EXCEPT !.userOrder =
                        SelectSeq(@, LAMBDA it : it.groupOrderId \notin orderIds)]
        noOrders == [noItems EXCEPT !.groupOrder = DropRows(@, OrdersOfGroup(db, groupId))]
        noMenu == MenuDelete(noOrders, MenuOfGroup(db, groupId))
    IN [noMenu EXCEPT !.groups = DropRows(@, {groupId})]

DeleteGroupRun(db, userId, groupId) ==
    IF groupId \notin DOMAIN db.groups THEN Outcome(db, ErrGroupNotFound)
    ELSE IF db.groups[groupId].creatorId # userId THEN Outcome(db, ErrNotAuthorized)
    ELSE IF HasUnpaidOrder(db, groupId) THEN Outcome(db, ErrCannotDeleteGroup)
    ELSE Outcome(DeleteGroupTx(db, groupId), OK)

\* updateGroupStatus as it would be if the group were looked up before the
\* status is checked
UpdateGroupStatusRunLookupFirst(db, userId, groupId, status) ==
    IF groupId \notin DOMAIN db.groups THEN Outcome(db, ErrGroupNotFound)
    ELSE IF db.groups[groupId].creatorId # userId THEN Outcome(db, ErrNotAuthorized)
    ELSE IF status \notin {"OPEN", "CLOSED"} THEN Outcome(db, ErrInvalidStatus)
    ELSE Outcome([db EXCEPT !.groups[groupId].status = status], OK)

\* updateGroupStatus as it would be if the status could only go from OPEN to
\* CLOSED: a CLOSED group is not opened again
UpdateGroupStatusRunOneWay(db, userId, groupId, status) ==
    IF status \notin {"OPEN", "CLOSED"} THEN Outcome(db, ErrInvalidStatus)
    ELSE IF groupId \notin DOMAIN db.groups THEN Outcome(db, ErrGroupNotFound)
    ELSE IF db.groups[groupId].creatorId # userId THEN Outcome(db, ErrNotAuthorized)
    ELSE IF db.groups[groupId].status = "CLOSED" /\ status = "OPEN"
         THEN Outcome(db, ErrGroupClosed)
    ELSE Outcome([db EXCEPT !.groups[groupId].status = status], OK)

(***************************************************************************)
(* GroupService.updateGroupStatus.                                         *)
(***************************************************************************)
UpdateGroupStatusRun(db, userId, groupId, status) ==
    IF status \notin {"OPEN", "CLOSED"} THEN Outcome(db, ErrInvalidStatus)
    ELSE IF groupId \notin DOMAIN db.groups THEN Outcome(db, ErrGroupNotFound)
    ELSE IF db.groups[groupId].creatorId # userId THEN Outcome(db, ErrNotAuthorized)
    ELSE Outcome([db EXCEPT !.groups[groupId].status = status], OK)

\* updatePaymentStatus as it would be if the owner of the order were let
\* through as well
UpdatePaymentStatusRunOwnerToo(db, userId, orderId, status) ==
    IF status \notin {"PAID", "UNPAID"} THEN Outcome(db, ErrInvalidStatus)
    ELSE IF orderId \notin DOMAIN db.groupOrder THEN Outcome(db, ErrOrderNotFound)
    ELSE IF /\ db.groups[db.groupOrder[orderId].groupId].creatorId # userId
            /\ db.groupOrder[orderId].userId # userId
         THEN Outcome(db, ErrNotAuthorized)
    ELSE Outcome([db EXCEPT !.groupOrder[orderId].paymentStatus = status], OK)

(***************************************************************************)
(* OrderService.updatePaymentStatus.                                       *)
(***************************************************************************)
UpdatePaymentStatusRun(db, userId, orderId, status) ==
    IF status \notin {"PAID", "UNPAID"} THEN Outcome(db, ErrInvalidStatus)
    ELSE IF orderId \notin DOMAIN db.groupOrder THEN Outcome(db, ErrOrderNotFound)
    ELSE IF db.groups[db.groupOrder[orderId].groupId].creatorId # userId
         THEN Outcome(db, ErrNotAuthorized)
    ELSE Outcome([db EXCEPT !.groupOrder[orderId].paymentStatus = status], OK)

(***************************************************************************)
(* OrderService.updateOrder.                                               *)
(*   items: a list of [productId, name, price, quantity], productId = NULL *)
(*   when the client sent none.                                            *)
(* Two reads of the call have no ORDER BY, so the row that comes first is  *)
(* the database's choice:                                                  *)
(*   order - the GroupOrder that findFirst({ userId, groupId }) returns,   *)
(*           NULL when there is none;                                      *)
(*   first - for each name on the menu, the product that                   *)
(*           groupProducts.find(p => p.name === ...) meets first.          *)
(***************************************************************************)
\* the validation query as it would be without its OR clause
CanAccessAnyone(db, userId, groupId) == groupId \in DOMAIN db.groups

\* the group the validation query finds: the caller is its creator or has an order in it
CanAccess(db, userId, groupId) ==
    /\ groupId \in DOMAIN db.groups
    /\ \/ db.groups[groupId].creatorId = userId
       \/ \E o \in OrdersOfGroup(db, groupId) : db.groupOrder[o].userId = userId

\* the status test as it would be with the wrong literal
GroupClosedLowercase(db, groupId) == db.groups[groupId].status = "closed"

\* group.status === 'CLOSED'
GroupClosed(db, groupId) == db.groups[groupId].status = "CLOSED"

\* the rows findFirst({ where: { userId, groupId } }) may return
FoundOrders(db, userId, groupId) ==
    {o \in OrdersOfGroup(db, groupId) : db.groupOrder[o].userId = userId}

OrderChoices(db, userId, groupId) ==
    IF FoundOrders(db, userId, groupId) = {} THEN {NULL}
    ELSE FoundOrders(db, userId, groupId)

\* the orders in which a name lookup can see the menu
FirstChoices(db, groupId) ==
    LET menu == MenuOfGroup(db, groupId)
        names == {db.groupMenu[p].name : p \in menu}
    IN {f \in [names -> menu] : \A n \in names : db.groupMenu[f[n]].name = n}

\* the product an incoming item resolves to, NULL when none
ResolveProduct(db, groupId, first, inputItem) ==
    IF inputItem.productId # NULL
    THEN IF inputItem.productId \in MenuOfGroup(db, groupId)
         THEN inputItem.productId ELSE NULL
    ELSE IF inputItem.name \in DOMAIN first THEN first[inputItem.name] ELSE NULL

\* newItems as they would be without the price check: a matched item keeps the
\* client's price
NewItemClientPrice(db, groupId, orderId, first, inputItem) ==
    LET product == ResolveProduct(db, groupId, first, inputItem)
    IN [groupOrderId |-> orderId,
        name |-> IF product # NULL THEN db.groupMenu[product].name ELSE inputItem.name,
        price |-> inputItem.price, quantity |-> inputItem.quantity,
        menuId |-> product]

\* newItems: the row stored for one incoming item
NewItem(db, groupId, orderId, first, inputItem) ==
    LET product == ResolveProduct(db, groupId, first, inputItem)
    IN IF product # NULL
       THEN [groupOrderId |-> orderId, name |-> db.groupMenu[product].name,
             price |-> db.groupMenu[product].price, quantity |-> inputItem.quantity,
             menuId |-> product]
       ELSE [groupOrderId |-> orderId, name |-> inputItem.name,
             price |-> inputItem.price, quantity |-> inputItem.quantity,
             menuId |-> NULL]

\* tx.userOrder.deleteMany({ where: { orderId } })
DeleteItemsOfOrder(db, orderId) ==
    [db EXCEPT !.userOrder = SelectSeq(@, LAMBDA it : it.groupOrderId # orderId)]

\* the transaction of updateOrder as it would be if replacing the items also
\* reset the order to UNPAID
ReplaceItemsTxResetPayment(db, groupId, orderId, first, items, t) ==
    LET cleared == DeleteItemsOfOrder(db, orderId)
        newItems == MapSeq(items, LAMBDA inputItem :
                        NewItem(cleared, groupId, orderId, first, inputItem))
    IN [cleared EXCEPT !.userOrder = @ \o newItems,
                       !.groupOrder[orderId].updatedAt = t,
                       !.groupOrder[orderId].paymentStatus = "UNPAID"]

\* the transaction of updateOrder
ReplaceItemsTx(db, groupId, orderId, first, items, t) ==
    LET cleared == DeleteItemsOfOrder(db, orderId)
        newItems == MapSeq(items, LAMBDA inputItem :
                        NewItem(cleared, groupId, orderId, first, inputItem))
    IN [cleared EXCEPT !.userOrder = @ \o newItems,
                       !.groupOrder[orderId].updatedAt = t]

\* find or create the caller's order
FindOrCreateOrder(db, userId, groupId, order, t) ==
    IF order # NULL THEN db
    ELSE [db EXCEPT !.groupOrder = AddRows(@, db.nextId.order,
                                       <<[userId |-> userId, groupId |-> groupId,
                                          paymentStatus |-> "UNPAID", updatedAt |-> t]>>),
                    !.nextId.order = @ + 1]

UpdateOrderRun(db, userId, groupId, items, order, first, t) ==
    IF groupId = NULL THEN Outcome(db, ErrGroupIdRequired)
    ELSE IF ~CanAccess(db, userId, groupId) THEN Outcome(db, ErrAccessDenied)
    ELSE IF GroupClosed(db, groupId) THEN Outcome(db, ErrGroupClosed)
    ELSE LET orderId == IF order # NULL THEN order ELSE db.nextId.order
             found == FindOrCreateOrder(db, userId, groupId, order, t)
         IN Outcome(ReplaceItemsTx(found, groupId, orderId, first, items, t), OK)

(***************************************************************************)
(* OrderService.getGroupSummary: a read; it answers or denies access.      *)
(***************************************************************************)
GetGroupSummaryRun(db, userId, groupId) ==
    IF ~CanAccess(db, userId, groupId) THEN Outcome(db, ErrAccessDenied)
    ELSE Outcome(db, OK)

(***************************************************************************)
(* The calls as actions.  Each call is one step: the store moves to the    *)
(* outcome's store, the clock advances, and last records the call.         *)
(***************************************************************************)
\* ids stay within the ranges the model allots
WithinIds(db) ==
    /\ db.nextId.group <= MaxGroups + 1
    /\ db.nextId.menu <= MaxMenu + 1
    /\ db.nextId.order <= MaxOrders + 1

Commit(op, userId, target, args, out) ==
    /\ now < MaxOps
    /\ WithinIds(out.db)
    /\ groups' = out.db.groups
    /\ groupMenu' = out.db.groupMenu
    /\ groupOrder' = out.db.groupOrder
    /\ userOrder' = out.db.userOrder
    /\ nextId' = out.db.nextId
    /\ now' = now + 1
    /\ last' = [op |-> op, userId |-> userId, target |-> target, args |-> args,
                result |-> out.result, pre |-> DB]
    /\ calls' = calls
    /\ friends' = friends

\* the controller's check of the request body: !title || !startTime || !endTime
Incomplete(data) == data.title = "" \/ data.startTime = NULL \/ data.endTime = NULL

\* the controller's createGroup: the service is called with a complete body only
CreateGroupRequest(db, userId, data, t) ==
    IF Incomplete(data) THEN Outcome(db, ErrValidation)
    ELSE CreateGroupRun(db, userId, data, t)

CreateGroup(userId, data) ==
    Commit("createGroup", userId, nextId.group, data,
           CreateGroupRequest(DB, userId, data, now + 1))

UpdateGroup(userId, groupId, data) ==
    Commit("updateGroup", userId, groupId, data,
           UpdateGroupRun(DB, userId, groupId, data, now + 1))

DeleteGroup(userId, groupId) ==
    Commit("deleteGroup", userId, groupId, <<>>, DeleteGroupRun(DB, userId, groupId))

UpdateGroupStatus(userId, groupId, status) ==
    Commit("updateGroupStatus", userId, groupId, status,
           UpdateGroupStatusRun(DB, userId, groupId, status))

UpdatePaymentStatus(userId, orderId, status) ==
    Commit("updatePaymentStatus", userId, orderId, status,
           UpdatePaymentStatusRun(DB, userId, orderId, status))

GetGroupSummary(userId, groupId) ==
    Commit("getGroupSummary", userId, groupId, <<>>, GetGroupSummaryRun(DB, userId, groupId))

UpdateOrder(userId, groupId, items) ==
    \E order \in OrderChoices(DB, userId, groupId), first \in FirstChoices(DB, groupId) :
        Commit("updateOrder", userId, groupId, items,
               UpdateOrderRun(DB, userId, groupId, items, order, first, now + 1))

(***************************************************************************)
(* Inputs.  The clients' arguments are drawn from small sets.              *)
(***************************************************************************)
KFC == [title |-> "KFC", startTime |-> 15, endTime |-> 17]
BK == [title |-> "BK", startTime |-> 14, endTime |-> 16]

Fries40 == [name |-> "Fries", price |-> 40]
Chips45 == [name |-> "Chips", price |-> 45]
Fries45 == [name |-> "Fries", price |-> 45]

\* a product entry of a request: id = NULL for a new product
Entry(id, np) == [id |-> id, name |-> np.name, price |-> np.price]

\* a line of a submitted order
Item(productId, name, price, quantity) ==
    [productId |-> productId, name |-> name, price |-> price, quantity |-> quantity]

CreateData(d, products, invitedUserIds, initialOrder) ==
    [title |-> d.title, startTime |-> d.startTime, endTime |-> d.endTime,
     products |-> products, invitedUserIds |-> invitedUserIds,
     initialOrder |-> initialOrder]

UpdateData(d, hasProducts, products, invitedUserIds) ==
    [title |-> d.title, startTime |-> d.startTime, endTime |-> d.endTime,
     hasProducts |-> hasProducts, products |-> products,
     invitedUserIds |-> invitedUserIds]

(***************************************************************************)
(* The databases a behaviour starts from: user 1 has created group 1       *)
(* (createGroup), and user 2, where invited, may have submitted an order   *)
(* (updateOrder).  They are computed by the operations themselves, at      *)
(* time 0.                                                                 *)
(***************************************************************************)
SeedMenus == {<<Entry(NULL, Fries40)>>, <<Entry(NULL, Fries40), Entry(NULL, Chips45)>>}
SeedInvites == {<<>>, <<2>>}
SeedInitialOrders == {<<>>, <<[name |-> "Fries", price |-> 40, quantity |-> 4]>>}
\* what user 2 has submitted: nothing yet, the first product by id, or an item
\* by name only
SeedOrders == {<<>>, <<Item(1, "Fries", 40, 4)>>, <<Item(NULL, "Chips", 45, 1)>>}

SeedGroups ==
    {CreateGroupRun(EmptyDB, 1, CreateData(KFC, ps, inv, io), 0).db :
        ps \in SeedMenus, inv \in SeedInvites, io \in SeedInitialOrders}

\* the databases in dbs, and those after user 2 has submitted an order
WithSeedOrders(dbs) ==
    dbs \cup
    {UpdateOrderRun(x[1], 2, 1, x[2], x[3], x[4], 0).db :
        x \in {y \in dbs \X (SeedOrders \ {<<>>}) \X OrderIds \X
                     UNION {FirstChoices(d, 1) : d \in dbs} :
                /\ CanAccess(y[1], 2, 1)
                /\ y[3] \in OrderChoices(y[1], 2, 1)
                /\ y[4] \in FirstChoices(y[1], 1)}}

SeedDBs == WithSeedOrders(SeedGroups)

\* the requests the server works on at the same time, and a slot without one
Procs == {1, 2}

Idle == [op |-> "idle", pc |-> "done", userId |-> NULL, groupId |-> NULL, args |-> <<>>,
         t |-> 0, result |-> OK, pre |-> EmptyDB, existing |-> {}, ids |-> {},
         menu |-> EmptyFn, order |-> NULL, victims |-> {}, blocked |-> {},
         newItems |-> <<>>, held |-> {}]

NoCall == [op |-> "none", userId |-> NULL, target |-> NULL, args |-> <<>>,
           result |-> OK, pre |-> EmptyDB]

InitFrom(dbs) ==
    /\ \E db \in dbs :
          /\ groups = db.groups
          /\ groupMenu = db.groupMenu
          /\ groupOrder = db.groupOrder
          /\ userOrder = db.userOrder
          /\ nextId = db.nextId
    /\ now = 0
    /\ last = NoCall
    /\ calls = [p \in Procs |-> Idle]
    /\ friends = {}

Init == InitFrom(SeedDBs)

\* a behaviour makes at most MaxOps calls
Running == now < MaxOps

(***************************************************************************)
(* Menu synchronisation: the creator edits the group while members order.  *)
(***************************************************************************)
\* the product lists a client sends: each stored product at most once, in id
\* order, then at most one new product
MenuEdits ==
    {e1 \o e2 \o e3 :
        e1 \in {<<>>} \cup {<<Entry(1, np)>> : np \in {Fries40, Chips45, Fries45}},
        e2 \in {<<>>} \cup {<<Entry(2, np)>> : np \in {Fries40, Chips45, Fries45}},
        e3 \in {<<>>, <<Entry(NULL, Chips45)>>}}

MenuOrders == {<<>>, <<Item(1, "Fries", 40, 4)>>, <<Item(NULL, "Chips", 45, 1)>>}

\* the invite lists sent along: nobody, user 2, or an id that is no user
MenuInvites == {<<>>, <<2>>, <<Ghost>>}

NextMenu ==
    \/ Running /\ \E d \in {KFC, BK}, ps \in MenuEdits, inv \in MenuInvites :
           UpdateGroup(1, 1, UpdateData(d, TRUE, ps, inv))
    \/ Running /\ \E u \in Users, items \in MenuOrders : UpdateOrder(u, 1, items)

SpecMenu == Init /\ [][NextMenu]_vars

(***************************************************************************)
(* Group lifecycle: groups are created, their members change, orders are   *)
(* paid, groups are closed and deleted.                                    *)
(***************************************************************************)
\* what a client may send as a status
StatusInputs == {"OPEN", "CLOSED", "PAID", "UNPAID"}

\* request bodies without a title and without an end time
IncompleteDetails == {[BK EXCEPT !.title = ""], [BK EXCEPT !.endTime = NULL]}

LifecycleOrders == {<<>>, <<Item(1, "Fries", 40, 4)>>}

Next ==
    \/ Running /\ \E u \in Users, ps \in {<<>>, <<Entry(NULL, Chips45)>>},
                     inv \in SeqsUpTo(Users, 2), io \in SeedInitialOrders :
           CreateGroup(u, CreateData(BK, ps, inv, io))
    \/ Running /\ \E u \in Users, d \in IncompleteDetails :
           CreateGroup(u, CreateData(d, <<Entry(NULL, Chips45)>>, <<2>>,
                                     <<[name |-> "Fries", price |-> 40, quantity |-> 4]>>))
    \/ Running /\ \E u \in Users, g \in GroupIds, inv \in SeqsUpTo(Users, 2),
                     hasProducts \in BOOLEAN :
           UpdateGroup(u, g, UpdateData(BK, hasProducts,
                                        IF hasProducts THEN <<Entry(1, Fries45)>> ELSE <<>>,
                                        inv))
    \/ Running /\ \E u \in Users, g \in GroupIds, d \in IncompleteDetails :
           UpdateGroup(u, g, UpdateData(d, FALSE, <<>>, <<>>))
    \/ Running /\ \E u \in Users, g \in GroupIds : DeleteGroup(u, g)
    \/ Running /\ \E u \in Users, g \in GroupIds, st \in StatusInputs :
           UpdateGroupStatus(u, g, st)
    \/ Running /\ \E u \in Users, o \in OrderIds, st \in StatusInputs :
           UpdatePaymentStatus(u, o, st)
    \/ Running /\ \E u \in Users, g \in GroupIds \cup {NULL}, items \in LifecycleOrders :
           UpdateOrder(u, g, items)
    \/ Running /\ \E u \in Users, g \in GroupIds : GetGroupSummary(u, g)

Spec == Init /\ [][Next]_vars

(***************************************************************************)
(* Ordering: members submit and resubmit their orders while the creator    *)
(* opens and closes the group.                                             *)
(***************************************************************************)
\* group 1 with two distinct products or two of one name, the creator alone,
\* with user 2, or having invited themselves
OrderSeedGroups ==
    {CreateGroupRun(EmptyDB, 1, CreateData(KFC, ps, inv, io), 0).db :
        ps \in {<<Entry(NULL, Fries40), Entry(NULL, Chips45)>>,
                <<Entry(NULL, Fries40), Entry(NULL, Fries45)>>},
        inv \in {<<2>>, <<1>>},
        io \in SeedInitialOrders}

InitOrder == InitFrom(WithSeedOrders(OrderSeedGroups))

\* the lines a client submits: with a product id of the menu, with an id that
\* is on no menu, or without one; the client's price is its own
StaleId == MaxMenu
OrderItems ==
    {Item(pid, n, 45, 4) : pid \in {NULL, 1, StaleId}, n \in Names}
        \cup {Item(NULL, "Fries", 40, 1)}

NextOrder ==
    \/ Running /\ \E u \in Users, items \in SeqsUpTo(OrderItems, 2) :
           UpdateOrder(u, 1, items)
    \/ Running /\ \E u \in Users, st \in {"OPEN", "CLOSED"} : UpdateGroupStatus(u, 1, st)

SpecOrder == InitOrder /\ [][NextOrder]_vars

(***************************************************************************)
(* Properties of the menu update.                                          *)
(***************************************************************************)
\* the product list of group g: ids, names, prices
ProductList(db, g) ==
    [p \in MenuOfGroup(db, g) |-> [name |-> db.groupMenu[p].name,
                                   price |-> db.groupMenu[p].price]]

\* the owner of the order a line item belongs to
OwnerOf(db, it) == db.groupOrder[it.groupOrderId].userId

\* the group of the order a line item belongs to
GroupOf(db, it) == db.groupOrder[it.groupOrderId].groupId

\* a line item of group g, owned by one of owners, refers to product p: by
\* product id, or by carrying exactly p's name
Referenced(db, g, p, owners) ==
    \E i \in 1..Len(db.userOrder) :
        /\ GroupOf(db, db.userOrder[i]) = g
        /\ OwnerOf(db, db.userOrder[i]) \in owners
        /\ \/ db.userOrder[i].menuId = p
           \/ db.userOrder[i].name = db.groupMenu[p].name

\* the last call was updateGroup with a product list, made by the group's creator
CreatorUpdatedMenu ==
    /\ last.op = "updateGroup"
    /\ last.target \in DOMAIN last.pre.groups
    /\ last.pre.groups[last.target].creatorId = last.userId
    /\ last.args.hasProducts

\* the stored products of the group that the incoming list left out (by id)
Omitted ==
    {p \in MenuOfGroup(last.pre, last.target) :
        \A i \in 1..Len(last.args.products) : last.args.products[i].id # p}

AllUserIds == Users \cup {Ghost}

\* the users the call keeps as members: the creator and the invited
Kept == {last.userId} \cup Range(last.args.invitedUserIds)

\* C1 (as stated, for calls that invite registered users): an updateGroup by the
\* creator that omits a stored product referenced by any line item of the
\* group - by id or by name - fails with "cannot delete item in use" and leaves
\* the product list as it was.
C1_AnyReference ==
    (/\ CreatorUpdatedMenu
     /\ Range(last.args.invitedUserIds) \subseteq Users
     /\ \E p \in Omitted : Referenced(last.pre, last.target, p, AllUserIds))
        => /\ last.result = ErrCannotDeleteItem
           /\ ProductList(DB, last.target) = ProductList(last.pre, last.target)

\* C1 (amended): an updateGroup by the creator, inviting registered users only,
\* that omits a stored product referenced - by id or by name - by a line item
\* of a member the call keeps (the creator or an invited user) fails with
\* "cannot delete item in use" and leaves the product list as it was.
C1_KeptReference ==
    (/\ CreatorUpdatedMenu
     /\ Range(last.args.invitedUserIds) \subseteq Users
     /\ \E p \in Omitted : Referenced(last.pre, last.target, p, Kept))
        => /\ last.result = ErrCannotDeleteItem
           /\ ProductList(DB, last.target) = ProductList(last.pre, last.target)

\* C1 witness: such a call, carrying an edit and a new product besides the omission
C1_Witness ==
    /\ CreatorUpdatedMenu
    /\ Range(last.args.invitedUserIds) \subseteq Users
    /\ \E p \in Omitted : Referenced(last.pre, last.target, p, Kept)
    /\ \E i, j \in 1..Len(last.args.products) :
          /\ last.args.products[i].id = NULL
          /\ last.args.products[j].id \in MenuOfGroup(last.pre, last.target)
          /\ last.args.products[j].name # last.pre.groupMenu[last.args.products[j].id].name
    /\ last.result = ErrCannotDeleteItem

\* the line items of order o, in stored order
Lines(db, o) == ItemsOfOrders(db, {o})

\* the entries of the call that change the name or price of a stored product
\* of the group
Edits ==
    {e \in Range(last.args.products) :
        /\ e.id \in MenuOfGroup(last.pre, last.target)
        /\ \/ last.pre.groupMenu[e.id].name # e.name
           \/ last.pre.groupMenu[e.id].price # e.price}

\* line k of order o was matched to the edited product e before the call: linked
\* to it, or unlinked and carrying its old name
Matched(o, k, e) ==
    LET it == Lines(last.pre, o)[k]
    IN \/ it.menuId = e.id
       \/ it.menuId = NULL /\ it.name = last.pre.groupMenu[e.id].name

\* C2 (as stated): after a successful updateGroup that changes the name or price
\* of a product, every line item of the group linked to it, and every unlinked
\* one carrying its old name, has the new name and price and its old quantity.
C2_Propagated ==
    (CreatorUpdatedMenu /\ last.result = OK)
        => \A e \in Edits :
             \A o \in OrdersOfGroup(DB, last.target) \cap OrdersOfGroup(last.pre, last.target) :
               /\ Len(Lines(DB, o)) = Len(Lines(last.pre, o))
               /\ \A k \in 1..Len(Lines(last.pre, o)) :
                    Matched(o, k, e) =>
                        /\ Lines(DB, o)[k].name = e.name
                        /\ Lines(DB, o)[k].price = e.price
                        /\ Lines(DB, o)[k].quantity = Lines(last.pre, o)[k].quantity

\* C3 (as stated): when updateGroup fails with the in-use conflict, the group's
\* title and dates, its orders and every line item are as before the call.
C3_ConflictLeavesAll ==
    (last.op = "updateGroup" /\ last.result = ErrCannotDeleteItem)
        => /\ groups = last.pre.groups
           /\ groupOrder = last.pre.groupOrder
           /\ userOrder = last.pre.userOrder

(***************************************************************************)
(* Membership and deletion.                                                *)
(***************************************************************************)
\* C4 (as the specification states it): every existing group has at most one
\* order per user and exactly one order of its creator, also after a
\* createGroup whose invitedUserIds names the creator or names a user twice.
C4_OneOrderPerMember ==
    \A g \in DOMAIN groups :
        /\ \A u \in Users : Cardinality(FoundOrders(DB, u, g)) <= 1
        /\ Cardinality(FoundOrders(DB, groups[g].creatorId, g)) = 1

\* deleteGroup was called by the creator of an existing group
CreatorDeleted ==
    /\ last.op = "deleteGroup"
    /\ last.target \in DOMAIN last.pre.groups
    /\ last.pre.groups[last.target].creatorId = last.userId

\* the tables are as they were before the call
StoreUnchanged ==
    /\ groups = last.pre.groups
    /\ groupMenu = last.pre.groupMenu
    /\ groupOrder = last.pre.groupOrder
    /\ userOrder = last.pre.userOrder

DataOf(db, g) ==
    [row |-> db.groups[g],
     products |-> [p \in MenuOfGroup(db, g) |-> db.groupMenu[p]],
     orders |-> [o \in OrdersOfGroup(db, g) |-> db.groupOrder[o]],
     lines |-> [o \in OrdersOfGroup(db, g) |-> Lines(db, o)]]

\* no row of the store points at a group or an order that does not exist
NoOrphans ==
    /\ \A p \in DOMAIN groupMenu : groupMenu[p].groupId \in DOMAIN groups
    /\ \A o \in DOMAIN groupOrder : groupOrder[o].groupId \in DOMAIN groups
    /\ \A i \in DOMAIN userOrder : userOrder[i].groupOrderId \in DOMAIN groupOrder

\* the group of the call and everything that belonged to it are gone
GroupGone ==
    /\ last.target \notin DOMAIN groups
    /\ \A p \in DOMAIN groupMenu : groupMenu[p].groupId # last.target
    /\ \A o \in DOMAIN groupOrder : groupOrder[o].groupId # last.target
    /\ \A i \in DOMAIN userOrder :
          userOrder[i].groupOrderId \notin OrdersOfGroup(last.pre, last.target)

\* C6: deleteGroup by the creator of a group whose orders are all PAID
\* succeeds; the group, its products, orders and line items are gone, no row
\* is orphaned, and the data of every other group is unchanged.  Whatever the
\* outcome of a deleteGroup, either all of it happened or none.
C6_PaidDeleteRemovesAll ==
    /\ (CreatorDeleted /\ \A o \in OrdersOfGroup(last.pre, last.target) :
                              last.pre.groupOrder[o].paymentStatus = "PAID")
           => /\ last.result = OK
              /\ GroupGone
              /\ NoOrphans
              /\ DOMAIN groups = DOMAIN last.pre.groups \ {last.target}
              /\ \A g \in DOMAIN groups : DataOf(DB, g) = DataOf(last.pre, g)
    /\ last.op = "deleteGroup"
           => IF last.result = OK THEN GroupGone /\ NoOrphans ELSE StoreUnchanged

\* a group with products, and a PAID order holding line items, is deleted
\* while another group with products and an order exists
C6_Witness ==
    /\ CreatorDeleted
    /\ last.result = OK
    /\ MenuOfGroup(last.pre, last.target) # {}
    /\ \E o \in OrdersOfGroup(last.pre, last.target) : Lines(last.pre, o) # <<>>
    /\ \E g \in DOMAIN groups : MenuOfGroup(DB, g) # {} /\ OrdersOfGroup(DB, g) # {}

(***************************************************************************)
(* Ordering.                                                               *)
(***************************************************************************)
\* updateOrder was called on an existing group by its creator or by a user
\* holding an order in it
MemberOrdered ==
    /\ last.op = "updateOrder"
    /\ last.target \in DOMAIN last.pre.groups
    /\ \/ last.pre.groups[last.target].creatorId = last.userId
       \/ FoundOrders(last.pre, last.userId, last.target) # {}

\* C7: updateOrder on a CLOSED group fails with the blocking error for the
\* creator and for a member alike; the orders of the group (with their
\* lastUpdated) and the line items are as before.
C7_ClosedRejects ==
    (MemberOrdered /\ last.pre.groups[last.target].status = "CLOSED")
        => /\ last.result = ErrGroupClosed
           /\ groupOrder = last.pre.groupOrder
           /\ userOrder = last.pre.userOrder

\* a member other than the creator, holding line items, submits a different
\* non-empty list to the CLOSED group
C7_Witness ==
    /\ MemberOrdered
    /\ last.result = ErrGroupClosed
    /\ last.pre.groups[last.target].creatorId # last.userId
    /\ last.args # <<>>
    /\ \E o \in FoundOrders(DB, last.userId, last.target) : Lines(DB, o) # <<>>

\* updateOrder succeeded
Ordered == last.op = "updateOrder" /\ last.result = OK

\* the order the successful updateOrder wrote
Written ==
    CHOOSE o \in FoundOrders(DB, last.userId, last.target) : groupOrder[o].updatedAt = now

\* the products of the group's menu called n
Named(n) == {p \in MenuOfGroup(DB, last.target) : groupMenu[p].name = n}

\* C8: after a successful updateOrder the stored lines are the incoming ones,
\* in order, with their quantities.  An item whose product id is on the menu
\* is linked to that product, an item without a product id whose name is on
\* the menu is linked to a product of that name; a linked line carries the
\* product's current name and price whatever the client sent; a line that is
\* not linked carries the client's name and price.
C8_Resolved ==
    Ordered =>
        /\ Len(Lines(DB, Written)) = Len(last.args)
        /\ \A k \in 1..Len(last.args) :
              LET in == last.args[k]
                  st == Lines(DB, Written)[k]
              IN /\ st.quantity = in.quantity
                 /\ in.productId \in MenuOfGroup(DB, last.target)
                        => st.menuId = in.productId
                 /\ (in.productId = NULL /\ Named(in.name) # {})
                        => st.menuId \in Named(in.name)
                 /\ st.menuId # NULL
                        => /\ st.menuId \in MenuOfGroup(DB, last.target)
                           /\ st.name = groupMenu[st.menuId].name
                           /\ st.price = groupMenu[st.menuId].price
                           /\ \/ in.productId = st.menuId
                              \/ in.name = st.name
                 /\ st.menuId = NULL
                        => st.name = in.name /\ st.price = in.price

\* one list holds an item matched by id whose price differs from the
\* product's and an item that matches nothing
C8_Witness ==
    /\ Ordered
    /\ \E j, k \in 1..Len(last.args) :
          /\ last.args[j].productId \in MenuOfGroup(DB, last.target)
          /\ last.args[j].price # groupMenu[last.args[j].productId].price
          /\ last.args[k].productId = NULL
          /\ Named(last.args[k].name) = {}

\* C9 (as the specification states it): an incoming item whose product id is
\* on no product of the menu but whose name is a menu product's name is
\* stored linked to a product of that name, with that product's price.
C9_NameAfterId ==
    Ordered =>
        \A k \in 1..Len(last.args) :
            LET in == last.args[k]
                st == Lines(DB, Written)[k]
            IN (/\ in.productId # NULL
                /\ in.productId \notin MenuOfGroup(DB, last.target)
                /\ Named(in.name) # {})
                   => /\ st.menuId \in Named(in.name)
                      /\ st.price = groupMenu[st.menuId].price

\* the multiset of (name, price, quantity, product link) a user has stored in
\* a group, over every order the user has there
RECURSIVE BagOfSeq(_)
BagOfSeq(s) ==
    IF s = <<>> THEN EmptyFn
    ELSE LET rest == BagOfSeq(Tail(s))
             x == [name |-> Head(s).name, price |-> Head(s).price,
                   quantity |-> Head(s).quantity, menuId |-> Head(s).menuId]
         IN IF x \in DOMAIN rest THEN [rest EXCEPT ![x] = @ + 1]
            ELSE [y \in DOMAIN rest \cup {x} |-> IF y = x THEN 1 ELSE rest[y]]

StoredOf(db, userId, groupId) ==
    BagOfSeq(ItemsOfOrders(db, FoundOrders(db, userId, groupId)))

\* product names are unique within each menu
DistinctNames(db) ==
    \A p, q \in DOMAIN db.groupMenu :
        (db.groupMenu[p].groupId = db.groupMenu[q].groupId
            /\ db.groupMenu[p].name = db.groupMenu[q].name) => p = q

\* C10 (as the specification states it): when the latest two calls are the
\* same successful updateOrder(user, group, L), on a menu with distinct
\* names, the user's stored multiset of line items in the group after the
\* second call is the one after the first.
C10_TwiceSameAsOnce ==
    [][(/\ Ordered
        /\ DistinctNames(DB)
        /\ now' = now + 1
        /\ last'.op = "updateOrder"
        /\ last'.result = OK
        /\ last'.userId = last.userId
        /\ last'.target = last.target
        /\ last'.args = last.args)
           => StoredOf(DB, last.userId, last.target)'
                  = StoredOf(DB, last.userId, last.target)]_vars

(***************************************************************************)
(* The HTTP status the controllers answer with.                            *)
(***************************************************************************)
HttpStatus(op, result) ==
    CASE op = "createGroup" ->
           IF result = OK THEN 201 ELSE IF result = ErrValidation THEN 400 ELSE 500
      [] op = "updateGroup" ->
           IF result = OK THEN 200
           ELSE IF result = ErrGroupNotFound THEN 404
           ELSE IF result = ErrNotAuthorized THEN 403
           ELSE IF result = ErrCannotDeleteItem THEN 400 ELSE 500
      [] op = "deleteGroup" ->
           IF result = OK THEN 200
           ELSE IF result = ErrGroupNotFound THEN 404
           ELSE IF result = ErrNotAuthorized THEN 403
           ELSE IF result = ErrCannotDeleteGroup THEN 400 ELSE 500
      [] op = "updateGroupStatus" ->
           IF result = OK THEN 200
           ELSE IF result = ErrInvalidStatus THEN 400
           ELSE IF result = ErrGroupNotFound THEN 404
           ELSE IF result = ErrNotAuthorized THEN 403 ELSE 500
      [] op = "updateOrder" ->
           IF result = OK THEN 200
           ELSE IF result = ErrGroupClosed THEN 400
           ELSE IF result = ErrAccessDenied THEN 403 ELSE 500
      [] op = "getGroupSummary" ->
           IF result = OK THEN 200
           ELSE IF result = ErrAccessDenied THEN 403 ELSE 500
      [] op = "updatePaymentStatus" ->
           IF result = OK THEN 200
           ELSE IF result = ErrInvalidStatus THEN 400
           ELSE IF result = ErrOrderNotFound THEN 404
           ELSE IF result = ErrNotAuthorized THEN 403 ELSE 500
      [] OTHER -> 200

Forbidden == HttpStatus(last.op, last.result) = 403

(***************************************************************************)
(* Authorization.                                                          *)
(***************************************************************************)
\* the group the call is about: the target, or the group of the target order
GroupOfCall ==
    IF last.op = "updatePaymentStatus"
    THEN IF last.target \in DOMAIN last.pre.groupOrder
         THEN last.pre.groupOrder[last.target].groupId ELSE NULL
    ELSE last.target

\* a creator-only operation was called, with a valid status where it takes
\* one, on an existing group or order by a user who is not the creator
StrangerCalled ==
    /\ \/ last.op \in {"updateGroup", "deleteGroup"}
       \/ last.op = "updateGroupStatus" /\ last.args \in {"OPEN", "CLOSED"}
       \/ last.op = "updatePaymentStatus" /\ last.args \in {"PAID", "UNPAID"}
    /\ GroupOfCall \in DOMAIN last.pre.groups
    /\ last.pre.groups[GroupOfCall].creatorId # last.userId

\* C11: updateGroup, deleteGroup, updateGroupStatus and updatePaymentStatus
\* called by a user who is not the creator of the existing group fail with
\* 'Not authorized', answered 403, and leave the store as it was.
C11_StrangerForbidden ==
    StrangerCalled => (last.result = ErrNotAuthorized /\ Forbidden /\ StoreUnchanged)

\* a member who is not the creator tries to mark their own UNPAID order PAID
C11_Witness ==
    /\ StrangerCalled
    /\ last.op = "updatePaymentStatus"
    /\ last.args = "PAID"
    /\ groupOrder[last.target].userId = last.userId
    /\ groupOrder[last.target].paymentStatus = "UNPAID"
    /\ Forbidden

\* updateOrder or getGroupSummary was called on an existing group by a user
\* who is not its creator and owns no order in it
OutsiderCalled ==
    /\ last.op \in {"updateOrder", "getGroupSummary"}
    /\ last.target \in DOMAIN last.pre.groups
    /\ last.pre.groups[last.target].creatorId # last.userId
    /\ \A o \in DOMAIN last.pre.groupOrder :
          ~(/\ last.pre.groupOrder[o].groupId = last.target
            /\ last.pre.groupOrder[o].userId = last.userId)

\* C12: updateOrder and getGroupSummary called by a user who is neither the
\* creator nor the owner of an order of the group fail with 'Access denied',
\* answered 403; no order is created and no line item changes, so the user
\* owns no order in the group afterwards either.
C12_OutsiderDenied ==
    OutsiderCalled =>
        /\ last.result = ErrAccessDenied
        /\ Forbidden
        /\ StoreUnchanged
        /\ \A o \in DOMAIN groupOrder :
              ~(groupOrder[o].groupId = last.target /\ groupOrder[o].userId = last.userId)

\* an outsider submits a non-empty order to an OPEN group
C12_Witness ==
    /\ OutsiderCalled
    /\ last.op = "updateOrder"
    /\ last.args # <<>>
    /\ groups[last.target].status = "OPEN"
    /\ last.result = ErrAccessDenied

(***************************************************************************)
(* The services step by step.  Two requests are served at a time; each     *)
(* awaited Prisma call is one step, and steps of the two requests          *)
(* interleave.  A call handed to prisma.$transaction as an array is one    *)
(* step.  The interactive transaction of updateOrder spans several steps:  *)
(* its writes are invisible to others until it commits, the rows its       *)
(* deleteMany met stay locked until then, and a statement of another       *)
(* request that needs a locked row waits.  Here every line item carries    *)
(* the id the database gave it, so that a row can be told from an equal    *)
(* one written later.                                                      *)
(***************************************************************************)
WithRowId(row, id) ==
    [groupOrderId |-> row.groupOrderId, name |-> row.name, price |-> row.price,
     quantity |-> row.quantity, menuId |-> row.menuId, id |-> id]

WithRowIds(rows, t) == [k \in 1..Len(rows) |-> WithRowId(rows[k], <<t, k>>)]

\* a line item without its id
Bare(row) ==
    [groupOrderId |-> row.groupOrderId, name |-> row.name, price |-> row.price,
     quantity |-> row.quantity, menuId |-> row.menuId]

NewCall(op, userId, groupId, args) ==
    [Idle EXCEPT !.op = op, !.userId = userId, !.groupId = groupId, !.args = args,
                 !.t = now + 1, !.pre = DB]

\* slot p is free for a new request
Free(p) == calls[p].pc = "done" /\ now < MaxOps

At(p, op, pc) == calls[p].op = op /\ calls[p].pc = pc

\* the request of slot p is inside the transaction of updateOrder
InTx(p) == calls[p].op = "updateOrder" /\ calls[p].pc \in {"readMenu", "commit"}

\* the stored rows locked by the transactions of the other slots
Locked(p) ==
    {r \in Range(userOrder) :
        \E q \in Procs \ {p} : InTx(q) /\ calls[q].blocked = {} /\ r \in calls[q].victims}

\* a statement of slot p that leaves newRows in userOrder touches no locked row
Untouched(p, newRows) == Locked(p) \subseteq Range(newRows)

SetStore(db) ==
    /\ groups' = db.groups
    /\ groupMenu' = db.groupMenu
    /\ groupOrder' = db.groupOrder
    /\ userOrder' = db.userOrder
    /\ nextId' = db.nextId

\* slot p goes on as c; a transaction that ended no longer blocks the others
Continue(p, c) ==
    /\ calls' = [q \in Procs |->
                    IF q = p THEN c
                    ELSE IF InTx(p) /\ c.pc = "done"
                         THEN [calls[q] EXCEPT !.blocked = @ \ {p}]
                         ELSE calls[q]]
    /\ friends' = friends

Done(c, result) == [c EXCEPT !.pc = "done", !.result = result]

(***************************************************************************)
(* updateOrder step by step.                                               *)
(***************************************************************************)
\* the validation query, for a new request
OrderValidate(p, userId, groupId, items) ==
    LET c == NewCall("updateOrder", userId, groupId, items)
    IN /\ Free(p)
       /\ now' = now + 1
       /\ UNCHANGED <<store, last>>
       /\ Continue(p, IF groupId = NULL THEN Done(c, ErrGroupIdRequired)
                      ELSE IF ~CanAccess(DB, userId, groupId) THEN Done(c, ErrAccessDenied)
                      ELSE IF GroupClosed(DB, groupId) THEN Done(c, ErrGroupClosed)
                      ELSE [c EXCEPT !.pc = "findOrder"])

\* prisma.groupOrder.findFirst({ where: { userId, groupId } })
OrderFind(p) ==
    LET c == calls[p]
    IN /\ At(p, "updateOrder", "findOrder")
       /\ UNCHANGED <<store, now, last>>
       /\ \E order \in OrderChoices(DB, c.userId, c.groupId) :
             Continue(p, IF order = NULL THEN [c EXCEPT !.pc = "createOrder"]
                         ELSE [c EXCEPT !.pc = "deleteItems", !.order = order])

\* prisma.groupOrder.create({ data: { userId, groupId } })
OrderCreate(p) ==
    LET c == calls[p]
    IN /\ At(p, "updateOrder", "createOrder")
       /\ UNCHANGED <<now, last>>
       /\ nextId.order \in OrderIds
       /\ IF c.groupId \in DOMAIN groups
          THEN /\ SetStore(FindOrCreateOrder(DB, c.userId, c.groupId, NULL, c.t))
               /\ Continue(p, [c EXCEPT !.pc = "deleteItems", !.order = nextId.order])
          ELSE /\ UNCHANGED store
               /\ Continue(p, Done(c, ErrPrisma))

\* what the others see of the store after tx.userOrder.deleteMany: nothing yet
AfterTxDeleteAtOnce(db, victims) ==
    [db EXCEPT !.userOrder = SelectSeq(@, LAMBDA r : r \notin victims)]

AfterTxDelete(db, victims) == db

\* tx.userOrder.deleteMany({ where: { orderId } }): the rows of the order,
\* waiting for the transactions that got to some of them first
OrderDeleteItems(p) ==
    LET c == calls[p]
        victims == {r \in Range(userOrder) : r.groupOrderId = c.order}
        blocked == {q \in Procs \ {p} : InTx(q) /\ calls[q].victims \cap victims # {}}
    IN /\ At(p, "updateOrder", "deleteItems")
       /\ UNCHANGED <<now, last>>
       /\ SetStore(AfterTxDelete(DB, victims))
       /\ Continue(p, [c EXCEPT !.pc = IF c.args = <<>> THEN "commit" ELSE "readMenu",
                                !.victims = victims, !.blocked = blocked])

\* tx.groupMenu.findMany and the resolution of the items against it
OrderReadMenu(p) ==
    LET c == calls[p]
    IN /\ At(p, "updateOrder", "readMenu")
       /\ c.blocked = {}
       /\ UNCHANGED <<store, now, last>>
       /\ \E first \in FirstChoices(DB, c.groupId) :
             Continue(p, [c EXCEPT !.pc = "commit",
                             !.newItems = MapSeq(c.args, LAMBDA inputItem :
                                 NewItem(DB, c.groupId, c.order, first, inputItem))])

\* tx.userOrder.createMany, tx.groupOrder.update and the commit; a missing
\* order or product fails the statement and the transaction rolls back
OrderCommit(p) ==
    LET c == calls[p]
        valid == /\ c.order \in DOMAIN groupOrder
                 /\ \A it \in Range(c.newItems) :
                       it.menuId = NULL \/ it.menuId \in DOMAIN groupMenu
    IN /\ At(p, "updateOrder", "commit")
       /\ c.blocked = {}
       /\ UNCHANGED <<groups, groupMenu, nextId, now, last>>
       /\ IF valid
          THEN /\ userOrder' = SelectSeq(userOrder, LAMBDA r : r \notin c.victims)
                                  \o WithRowIds(c.newItems, c.t)
               /\ groupOrder' = [groupOrder EXCEPT ![c.order].updatedAt = c.t]
               /\ Continue(p, Done(c, OK))
          ELSE /\ UNCHANGED <<userOrder, groupOrder>>
               /\ Continue(p, Done(c, ErrPrisma))

(***************************************************************************)
(* updateGroup step by step.                                               *)
(***************************************************************************)
\* where the call goes after a step, skipping what it has nothing to do for
AfterMembers(c) == IF c.args.hasProducts THEN "findDeletable" ELSE "done"

AfterAdd(c) ==
    IF ToRemove(c.existing, c.userId, InvitedOrEmpty(c.args)) # {} THEN "findRemoved"
    ELSE AfterMembers(c)

AfterDetails(c) ==
    IF ToAdd(c.existing, c.userId, InvitedOrEmpty(c.args)) # <<>> THEN "addMembers"
    ELSE AfterAdd(c)

\* the store as the call sees it through the products it read earlier
WithMenuRead(c) == [DB EXCEPT !.groupMenu = c.menu]

\* prisma.group.findUnique with its orders, and the ownership check, for a
\* new request
GroupFind(p, userId, groupId, data) ==
    LET c == NewCall("updateGroup", userId, groupId, data)
    IN /\ Free(p)
       /\ now' = now + 1
       /\ UNCHANGED <<store, last>>
       /\ Continue(p, IF groupId \notin DOMAIN groups THEN Done(c, ErrGroupNotFound)
                      ELSE IF groups[groupId].creatorId # userId
                           THEN Done(c, ErrNotAuthorized)
                      ELSE [c EXCEPT !.pc = "details",
                                     !.existing = ExistingUserIds(DB, groupId)])

\* prisma.group.update
GroupDetails(p) ==
    LET c == calls[p]
    IN /\ At(p, "updateGroup", "details")
       /\ UNCHANGED <<now, last>>
       /\ IF c.groupId \in DOMAIN groups /\ ~InvalidDates(c.args)
          THEN /\ SetStore(BasicDetails(DB, c.groupId, c.args))
               /\ Continue(p, [c EXCEPT !.pc = AfterDetails(c)])
          ELSE /\ UNCHANGED store
               /\ Continue(p, Done(c, ErrPrisma))

\* prisma.groupOrder.createMany for toAdd
GroupAddMembers(p) ==
    LET c == calls[p]
        toAdd == ToAdd(c.existing, c.userId, InvitedOrEmpty(c.args))
        added == AddMembers(DB, c.groupId, toAdd, c.t)
    IN /\ At(p, "updateGroup", "addMembers")
       /\ WithinIds(added)
       /\ UNCHANGED <<now, last>>
       /\ IF Range(toAdd) \subseteq Users /\ c.groupId \in DOMAIN groups
          THEN /\ SetStore(added)
               /\ Continue(p, [c EXCEPT !.pc = AfterAdd(c)])
          ELSE /\ UNCHANGED store
               /\ Continue(p, Done(c, ErrPrisma))

\* prisma.groupOrder.findMany of the orders of toRemove
GroupFindRemoved(p) ==
    LET c == calls[p]
        toRemove == ToRemove(c.existing, c.userId, InvitedOrEmpty(c.args))
        orderIds == {o \in OrdersOfGroup(DB, c.groupId) : groupOrder[o].userId \in toRemove}
    IN /\ At(p, "updateGroup", "findRemoved")
       /\ UNCHANGED <<store, now, last>>
       /\ Continue(p, [c EXCEPT !.ids = orderIds,
                                !.pc = IF orderIds = {} THEN AfterMembers(c)
                                       ELSE "deleteRemovedItems"])

\* prisma.userOrder.deleteMany of their line items
GroupDeleteRemovedItems(p) ==
    LET c == calls[p]
        kept == SelectSeq(userOrder, LAMBDA r : r.groupOrderId \notin c.ids)
    IN /\ At(p, "updateGroup", "deleteRemovedItems")
       /\ Untouched(p, kept)
       /\ userOrder' = kept
       /\ UNCHANGED <<groups, groupMenu, groupOrder, nextId, now, last>>
       /\ Continue(p, [c EXCEPT !.pc = "deleteRemovedOrders"])

\* prisma.groupOrder.deleteMany; a line item still pointing at one of the
\* orders fails it (ON DELETE RESTRICT)
GroupDeleteRemovedOrders(p) ==
    LET c == calls[p]
    IN /\ At(p, "updateGroup", "deleteRemovedOrders")
       /\ UNCHANGED <<groups, groupMenu, userOrder, nextId, now, last>>
       /\ IF \E r \in Range(userOrder) : r.groupOrderId \in c.ids
          THEN /\ UNCHANGED groupOrder
               /\ Continue(p, Done(c, ErrPrisma))
          ELSE /\ groupOrder' = DropRows(groupOrder, c.ids)
               /\ Continue(p, [c EXCEPT !.pc = AfterMembers(c)])

\* prisma.groupMenu.findMany of productsToDelete
GroupFindDeletable(p) ==
    LET c == calls[p]
        toDelete == ProductsToDelete(DB, c.groupId, c.args.products)
    IN /\ At(p, "updateGroup", "findDeletable")
       /\ UNCHANGED <<store, now, last>>
       /\ Continue(p, [c EXCEPT !.ids = toDelete, !.menu = groupMenu,
                                !.pc = IF toDelete # {} THEN "usedItem" ELSE "readMenu"])

\* prisma.userOrder.findFirst of usedItem
GroupUsedItem(p) ==
    LET c == calls[p]
    IN /\ At(p, "updateGroup", "usedItem")
       /\ UNCHANGED <<store, now, last>>
       /\ Continue(p, IF UsedItem(WithMenuRead(c), c.groupId, c.ids)
                      THEN Done(c, ErrCannotDeleteItem)
                      ELSE [c EXCEPT !.pc = "deleteTx"])

\* the products the transaction would update exist
Updatable(products) == \A e \in Range(WithId(products)) : e.id \in DOMAIN groupMenu

\* the store after the updates and the creates
UpdatedAndCreated(c) ==
    MenuCreates([DB EXCEPT !.groupMenu = MenuUpdates(@, WithId(c.args.products))],
                c.groupId, WithoutId(c.args.products))

\* prisma.$transaction([...updates, ...creates, deleteOp])
GroupDeleteTx(p) ==
    LET c == calls[p]
        after == MenuDelete(UpdatedAndCreated(c), c.ids)
    IN /\ At(p, "updateGroup", "deleteTx")
       /\ UNCHANGED <<now, last>>
       /\ IF Updatable(c.args.products)
          THEN /\ WithinIds(after)
               /\ Untouched(p, after.userOrder)
               /\ SetStore(after)
               /\ Continue(p, Done(c, OK))
          ELSE /\ UNCHANGED store
               /\ Continue(p, Done(c, ErrPrisma))

\* prisma.groupMenu.findMany of existingProducts
GroupReadMenu(p) ==
    LET c == calls[p]
    IN /\ At(p, "updateGroup", "readMenu")
       /\ UNCHANGED <<store, now, last>>
       /\ Continue(p, [c EXCEPT !.menu = groupMenu, !.pc = "syncTx"])

\* prisma.$transaction([...updates, ...creates, ...syncOps])
GroupSyncTx(p) ==
    LET c == calls[p]
        after == SyncOps(UpdatedAndCreated(c), c.groupId, c.menu,
                         Changed(WithMenuRead(c), c.groupId, c.args.products))
    IN /\ At(p, "updateGroup", "syncTx")
       /\ UNCHANGED <<now, last>>
       /\ IF Updatable(c.args.products)
          THEN /\ WithinIds(after)
               /\ Untouched(p, after.userOrder)
               /\ SetStore(after)
               /\ Continue(p, Done(c, OK))
          ELSE /\ UNCHANGED store
               /\ Continue(p, Done(c, ErrPrisma))

(***************************************************************************)
(* updateGroupStatus next to them: its one write is one step.              *)
(***************************************************************************)
SetStatus(userId, groupId, status) ==
    /\ now < MaxOps
    /\ now' = now + 1
    /\ SetStore(UpdateGroupStatusRun(DB, userId, groupId, status).db)
    /\ UNCHANGED <<last, calls, friends>>

(***************************************************************************)
(* The interleavings: group 1 with two products, the creator alone or      *)
(* with user 2; orders by product id and by name, menu edits that reprice, *)
(* delete and keep, invitations of user 2.                                 *)
(***************************************************************************)
StepSeedGroups ==
    {CreateGroupRun(EmptyDB, 1, CreateData(KFC, <<Entry(NULL, Fries40), Entry(NULL, Chips45)>>,
                                           inv, io), 0).db :
        inv \in {<<>>, <<2>>}, io \in SeedInitialOrders}

\* the seed with every line item given its id
WithIds(db) == [db EXCEPT !.userOrder = WithRowIds(@, 0)]

InitSteps == InitFrom({WithIds(db) : db \in WithSeedOrders(StepSeedGroups)})

StepOrders == {<<Item(1, "Fries", 40, 4)>>, <<Item(NULL, "Chips", 45, 1)>>}

StepProducts == {<<>>, <<Entry(1, Fries45)>>, <<Entry(1, Fries45), Entry(2, Chips45)>>}

StepData ==
    {UpdateData(KFC, FALSE, <<>>, inv) : inv \in {<<>>, <<2>>}}
        \cup {UpdateData(KFC, TRUE, ps, inv) : ps \in StepProducts, inv \in {<<>>, <<2>>}}

NextSteps ==
    \/ \E p \in Procs, u \in Users, items \in StepOrders : OrderValidate(p, u, 1, items)
    \/ \E p \in Procs : OrderFind(p)
    \/ \E p \in Procs : OrderCreate(p)
    \/ \E p \in Procs : OrderDeleteItems(p)
    \/ \E p \in Procs : OrderReadMenu(p)
    \/ \E p \in Procs : OrderCommit(p)
    \/ \E p \in Procs, data \in StepData : GroupFind(p, 1, 1, data)
    \/ \E p \in Procs : GroupDetails(p)
    \/ \E p \in Procs : GroupAddMembers(p)
    \/ \E p \in Procs : GroupFindRemoved(p)
    \/ \E p \in Procs : GroupDeleteRemovedItems(p)
    \/ \E p \in Procs : GroupDeleteRemovedOrders(p)
    \/ \E p \in Procs : GroupFindDeletable(p)
    \/ \E p \in Procs : GroupUsedItem(p)
    \/ \E p \in Procs : GroupDeleteTx(p)
    \/ \E p \in Procs : GroupReadMenu(p)
    \/ \E p \in Procs : GroupSyncTx(p)
    \/ \E st \in {"OPEN", "CLOSED"} : SetStatus(1, 1, st)

SpecSteps == InitSteps /\ [][NextSteps]_vars

(***************************************************************************)
(* Properties of the interleavings.                                        *)
(***************************************************************************)
\* no request so far was an updateOrder
OnlyGroupCalls == \A p \in Procs : calls[p].op # "updateOrder"

\* C13 (as the specification states it): whenever a reader looks - between
\* any two steps of the updateGroup calls, with no updateOrder about - every
\* line item linked to a product carries that product's stored name and
\* price: the product updates and their propagation are visible together.
C13_SyncVisibleTogether ==
    OnlyGroupCalls =>
        \A r \in Range(userOrder) :
            r.menuId # NULL =>
                /\ r.menuId \in DOMAIN groupMenu
                /\ r.name = groupMenu[r.menuId].name
                /\ r.price = groupMenu[r.menuId].price

\* the line items of order o as a reader finds them, without their ids
Stored(o) == MapSeq(Lines(DB, o), Bare)

\* both slots hold a finished, successful updateOrder of one user on one
\* order of one group
BothOrdered ==
    /\ \A p \in Procs : /\ calls[p].op = "updateOrder"
                        /\ calls[p].pc = "done"
                        /\ calls[p].result = OK
    /\ calls[1].userId = calls[2].userId
    /\ calls[1].groupId = calls[2].groupId
    /\ calls[1].order = calls[2].order

\* C14 (as the specification states it): after two updateOrder calls of one
\* user on one group, however their steps interleaved, the stored line items
\* of the order are exactly what one of the two calls resolved its list to.
C14_OneSubmissionWins ==
    BothOrdered =>
        \/ Stored(calls[1].order) = calls[1].newItems
        \/ Stored(calls[1].order) = calls[2].newItems

\* slot p is inside an updateOrder transaction that replaces a non-empty
\* order by a non-empty list
Replacing(p) == InTx(p) /\ calls[p].args # <<>> /\ calls[p].victims # {}

\* the step is one of slot p's request
Stepped(p) == calls'[p].pc # calls[p].pc \/ calls'[p].t # calls[p].t

\* C15: no step of an updateOrder that submits a non-empty list takes the
\* order it writes from holding line items to holding none: a reader who
\* looks between any two steps finds the old items or the new ones, the
\* delete and the re-insert show together at the commit.
C15_NeverSeenEmpty ==
    [][\A p \in Procs :
          (/\ Stepped(p)
           /\ calls'[p].op = "updateOrder"
           /\ calls'[p].args # <<>>
           /\ calls'[p].order # NULL
           /\ Lines(DB, calls'[p].order) # <<>>)
              => Lines(DB', calls'[p].order) # <<>>]_vars

\* a reader could look while the transaction has deleted and not yet
\* inserted, and another request is in flight too
C15_Witness ==
    \E p \in Procs :
        /\ Replacing(p)
        /\ calls[p].pc = "commit"
        /\ calls[p].blocked = {}
        /\ \E q \in Procs \ {p} : calls[q].pc # "done"

\* a line item of the product's group refers to product P: by its id or by
\* carrying its name
RefersTo(r, P) ==
    /\ groupOrder[r.groupOrderId].groupId = groupMenu[P].groupId
    /\ r.menuId = P \/ r.name = groupMenu[P].name

\* C16 (as the specification states it): under every interleaving, a step
\* that deletes product P finds, at that moment, no line item of the group
\* that refers to P by id or by name.
C16_DeleteOnlyUnused ==
    [][\A P \in DOMAIN groupMenu :
          P \notin DOMAIN groupMenu' => ~\E r \in Range(userOrder) : RefersTo(r, P)]_vars

\* how many orders each user owns in group g, and how many products of each
\* name and price the group has
Membership(db, g) == [u \in Users |-> Cardinality(FoundOrders(db, u, g))]

MenuBag(db, g) ==
    LET np(p) == [name |-> db.groupMenu[p].name, price |-> db.groupMenu[p].price]
    IN [x \in {np(p) : p \in MenuOfGroup(db, g)} |->
           Cardinality({p \in MenuOfGroup(db, g) : np(p) = x})]

\* both slots hold a finished, successful updateGroup of one group
BothUpdated ==
    /\ \A p \in Procs : /\ calls[p].op = "updateGroup"
                        /\ calls[p].pc = "done"
                        /\ calls[p].result = OK
    /\ calls[1].groupId = calls[2].groupId

\* the store after the call of slot p and then the call of slot q, one after
\* the other, from the store the earlier of the two began with
OneAfterTheOther(p, q) ==
    LET pre == IF calls[1].t < calls[2].t THEN calls[1].pre ELSE calls[2].pre
        cp == calls[p]
        cq == calls[q]
    IN UpdateGroupRun(UpdateGroupRun(pre, cp.userId, cp.groupId, cp.args, cp.t).db,
                      cq.userId, cq.groupId, cq.args, cq.t).db

SameAs(db) ==
    /\ Membership(DB, calls[1].groupId) = Membership(db, calls[1].groupId)
    /\ MenuBag(DB, calls[1].groupId) = MenuBag(db, calls[1].groupId)

\* C17 (as the specification states it): after two updateGroup calls of the
\* creator on one group, however their steps interleaved, the members and
\* the menu are those of running the two calls one after the other in one
\* of the two orders.
C17_Serialized ==
    BothUpdated => (SameAs(OneAfterTheOther(1, 2)) \/ SameAs(OneAfterTheOther(2, 1)))

\* the line items of group g
ItemsOfGroup(db, g) == ItemsOfOrders(db, OrdersOfGroup(db, g))

\* C18 (as the specification states it): while a group is stored as CLOSED,
\* no step of an updateOrder request changes a line item of the group, also
\* when the request passed its status check before the group was closed.
C18_ClosedFreezesItems ==
    [][\A p \in Procs :
          (/\ Stepped(p)
           /\ calls'[p].op = "updateOrder"
           /\ calls'[p].groupId \in DOMAIN groups
           /\ groups[calls'[p].groupId].status = "CLOSED")
              => ItemsOfGroup(DB', calls'[p].groupId) = ItemsOfGroup(DB, calls'[p].groupId)]_vars

(***************************************************************************)
(* Membership sync and group creation.                                     *)
(***************************************************************************)
\* updateGroup succeeded
GroupUpdated == last.op = "updateGroup" /\ last.result = OK

\* the invite list with the creator: who is to be a member
Target == Range(last.args.invitedUserIds) \cup {last.userId}

Made(u) == FoundOrders(DB, u, last.target)

\* C20: a createGroup call with title, start or end missing fails with the
\* validation error and leaves the store as it was; a successful one makes
\* a group with status OPEN, one product per entry of products, one order
\* of the creator, PAID, with one line item per entry of initialOrder, and
\* one order per invited user, UNPAID and without line items.
C20_CreateGroupShape ==
    last.op = "createGroup" =>
        LET g == last.target
            data == last.args
            c == last.userId
        IN IF Incomplete(data)
           THEN last.result = ErrValidation /\ DB = last.pre
           ELSE last.result = OK =>
                  /\ g \in DOMAIN groups
                  /\ groups[g].status = "OPEN"
                  /\ groups[g].creatorId = c
                  /\ Cardinality(MenuOfGroup(DB, g)) = Len(data.products)
                  /\ \A k \in 1..Len(data.products) :
                        LET m == last.pre.nextId.menu + k - 1
                        IN /\ m \in MenuOfGroup(DB, g)
                           /\ groupMenu[m].name = data.products[k].name
                           /\ groupMenu[m].price = data.products[k].price
                  /\ Cardinality(Made(c)) = 1
                  /\ \A o \in Made(c) :
                        /\ groupOrder[o].paymentStatus = "PAID"
                        /\ MapSeq(Lines(DB, o), LAMBDA l : [name |-> l.name, price |-> l.price,
                                                            quantity |-> l.quantity])
                             = data.initialOrder
                  /\ \A u \in Range(data.invitedUserIds) \ {c} :
                        /\ Cardinality(Made(u)) = 1
                        /\ \A o \in Made(u) :
                              /\ groupOrder[o].paymentStatus = "UNPAID"
                              /\ Lines(DB, o) = <<>>


(***************************************************************************)
(* The group views: getGroupSummary and getDashboardGroups compute the     *)
(* same totals and statistics from the orders of a group.  statsMap is a   *)
(* plain object ({}), read and written by item name; orderStats is         *)
(* Object.values(statsMap), the entries in the order they were put in.     *)
(***************************************************************************)
\* names every object literal inherits from Object.prototype: statsMap[name]
\* finds a value under them although nothing was stored
InheritedKeys == {"constructor", "toString", "valueOf", "hasOwnProperty", "__proto__"}

\* reduce((sum, item) => sum + item.price * item.quantity, 0)
RECURSIVE OrderSum(_)
OrderSum(items) ==
    IF items = <<>> THEN 0
    ELSE items[1].price * items[1].quantity + OrderSum(Tail(items))

\* the body of o.items.forEach: under an inherited name statsMap[item.name] is
\* truthy, no entry is made and the sums are added to the inherited object
AddToStats(stats, item) ==
    IF item.name \in InheritedKeys THEN stats
    ELSE LET s == IF \E k \in 1..Len(stats) : stats[k].name = item.name THEN stats
                  ELSE Append(stats, [name |-> item.name, quantity |-> 0, totalPrice |-> 0])
         IN [k \in 1..Len(s) |->
                IF s[k].name = item.name
                THEN [s[k] EXCEPT !.quantity = @ + item.quantity,
                                  !.totalPrice = @ + item.quantity * item.price]
                ELSE s[k]]

\* the orders of the group in every order the query may return them
Visits(db, g) ==
    {v \in [1..Cardinality(OrdersOfGroup(db, g)) -> OrdersOfGroup(db, g)] :
        Range(v) = OrdersOfGroup(db, g)}

\* orders.forEach: the total and the statistics after the orders of visit
RECURSIVE Aggregate(_, _, _)
Aggregate(db, visit, acc) ==
    IF visit = <<>> THEN acc
    ELSE LET items == ItemsOfOrders(db, {visit[1]})
             RECURSIVE Each(_, _)
             Each(its, stats) ==
                 IF its = <<>> THEN stats ELSE Each(Tail(its), AddToStats(stats, its[1]))
         IN Aggregate(db, Tail(visit),
                      [totalGroupAmount |-> acc.totalGroupAmount + OrderSum(items),
                       orderStats |-> Each(items, acc.orderStats)])

\* totalGroupAmount and orderStats of the returned group
GroupView(db, g, visit) == Aggregate(db, visit, [totalGroupAmount |-> 0, orderStats |-> <<>>])

\* GroupService.getDashboardGroups: the groups the user created or has an order in
DashboardGroups(db, userId) == {g \in DOMAIN db.groups : CanAccess(db, userId, g)}

GetDashboardGroups(userId) ==
    Commit("getDashboardGroups", userId, NULL, <<>>, Outcome(DB, OK))

\* a line named as a product, one of its own name, and one named as something
\* every object has
ViewOrders ==
    SeqsUpTo({Item(1, "Fries", 40, 4), Item(NULL, "Chips", 45, 1),
              Item(NULL, "constructor", 45, 1)}, 2)

NextViews ==
    \/ Running /\ \E u \in Users, items \in ViewOrders : UpdateOrder(u, 1, items)
    \/ Running /\ \E u \in Users, g \in GroupIds : GetGroupSummary(u, g)
    \/ Running /\ \E u \in Users : GetDashboardGroups(u)

SpecViews == Init /\ [][NextViews]_vars

\* the groups in the answer of the last call
Viewed ==
    IF last.op = "getGroupSummary" /\ last.result = OK THEN {last.target}
    ELSE IF last.op = "getDashboardGroups" THEN DashboardGroups(DB, last.userId)
    ELSE {}

\* the sum of the numbers of a sequence
RECURSIVE SumSeq(_)
SumSeq(s) == IF s = <<>> THEN 0 ELSE s[1] + SumSeq(Tail(s))

\* C21: in every returned group view the totalPrice of the orderStats
\* entries add up to totalGroupAmount, which is the sum of price x quantity
\* over the line items of the group's orders, and every item name has
\* exactly one orderStats entry, with the summed quantity of the lines of
\* that name, in whatever order the orders are visited.
C21_StatsAddUp ==
    \A g \in Viewed : \A visit \in Visits(DB, g) :
        LET view == GroupView(DB, g, visit)
            items == ItemsOfOrders(DB, OrdersOfGroup(DB, g))
        IN /\ SumSeq(MapSeq(view.orderStats, LAMBDA e : e.totalPrice)) = view.totalGroupAmount
           /\ view.totalGroupAmount = OrderSum(items)
           /\ \A n \in {items[k].name : k \in 1..Len(items)} :
                 /\ Cardinality({k \in 1..Len(view.orderStats) :
                                    view.orderStats[k].name = n}) = 1
                 /\ \A k \in 1..Len(view.orderStats) :
                       view.orderStats[k].name = n =>
                           view.orderStats[k].quantity
                               = SumSeq(MapSeq(SelectSeq(items, LAMBDA it : it.name = n),
                                               LAMBDA it : it.quantity))


(***************************************************************************)
(* Entries that change nothing, and what a call may touch.                 *)
(***************************************************************************)
\* the last call was an updateGroup by the creator whose product entries all
\* carry the id of a product of the group, with the stored name and price
EntriesAsStored ==
    /\ last.op = "updateGroup"
    /\ last.target \in DOMAIN last.pre.groups
    /\ last.pre.groups[last.target].creatorId = last.userId
    /\ last.args.hasProducts
    /\ \A p \in Range(last.args.products) :
          /\ p.id \in MenuOfGroup(last.pre, last.target)
          /\ last.pre.groupMenu[p.id].name = p.name
          /\ last.pre.groupMenu[p.id].price = p.price

\* the products of the group, by id
MenuRows(db, g) == [m \in MenuOfGroup(db, g) |-> db.groupMenu[m]]

\* menu and line items of the group are as before the call
MenuAndItemsKept ==
    /\ MenuRows(DB, last.target) = MenuRows(last.pre, last.target)
    /\ ItemsOfGroup(DB, last.target) = ItemsOfGroup(last.pre, last.target)

\* C22 as stated: an updateGroup whose entries all carry an existing id with
\* the stored name and price leaves every product and every line item of
\* the group as it was.
C22_EntriesAsStoredNoOp == EntriesAsStored => MenuAndItemsKept

\* the entries name every product of the group, and the invite list drops no member
NothingDropped ==
    /\ KeepIds(last.args.products) = MenuOfGroup(last.pre, last.target)
    /\ ToRemove(ExistingUserIds(last.pre, last.target), last.userId,
                last.args.invitedUserIds) = {}

\* C22: an updateGroup whose entries are the stored products of the group,
\* all of them, each with its id, name and price, and whose invite list
\* keeps every member, leaves every product and every line item of the
\* group as it was: name, price, quantity and product link, unlinked items
\* of a product's name included.
C22_WholeMenuAsStoredNoOp == (EntriesAsStored /\ NothingDropped) => MenuAndItemsKept

\* such a call went through while the group held an unlinked line item with
\* a product's name
C22_Witness ==
    /\ EntriesAsStored
    /\ NothingDropped
    /\ last.result = OK
    /\ \E i \in DOMAIN userOrder :
          /\ userOrder[i].groupOrderId \in OrdersOfGroup(DB, last.target)
          /\ userOrder[i].menuId = NULL
          /\ \E m \in MenuOfGroup(DB, last.target) : groupMenu[m].name = userOrder[i].name


(***************************************************************************)
(* Amounts: the quantities and prices the clients send are numbers of      *)
(* their choosing.                                                         *)
(***************************************************************************)
\* quantities and prices a client may send besides the usual ones
OddQuantities == {0 - 1, 0, 4}
OddPrices == {0 - 5, 40}

AmountOrders ==
    {<<Item(pid, "Fries", pr, q)>> : pid \in {NULL, 1}, pr \in OddPrices, q \in OddQuantities}
        \cup {<<Item(NULL, "Soup", pr, q)>> : pr \in OddPrices, q \in OddQuantities}

NextAmounts ==
    \/ Running /\ \E u \in Users, pr \in OddPrices, q \in OddQuantities :
           CreateGroup(u, CreateData(BK, <<Entry(NULL, [name |-> "Chips", price |-> pr])>>,
                                     <<>>, <<[name |-> "Chips", price |-> pr, quantity |-> q]>>))
    \/ Running /\ \E pr \in OddPrices, inv \in SeedInvites :
           UpdateGroup(1, 1, UpdateData(KFC, TRUE,
                                        <<Entry(1, [name |-> "Fries", price |-> pr])>>, inv))
    \/ Running /\ \E u \in Users, items \in AmountOrders : UpdateOrder(u, 1, items)

SpecAmounts == Init /\ [][NextAmounts]_vars

\* C23: every stored line item has a quantity of at least 1 and a price of
\* at least 0, whatever quantities and prices the callers pass.
C23_AmountsInRange ==
    \A i \in DOMAIN userOrder : userOrder[i].quantity >= 1 /\ userOrder[i].price >= 0


(***************************************************************************)
(* Status values.                                                          *)
(***************************************************************************)
\* the last call passed a status its operation does not know
BadGroupStatus == last.op = "updateGroupStatus" /\ last.args \notin {"OPEN", "CLOSED"}
BadPaymentStatus == last.op = "updatePaymentStatus" /\ last.args \notin {"PAID", "UNPAID"}

\* C24: every group's status is OPEN or CLOSED and every order's
\* paymentStatus is UNPAID or PAID; updateGroupStatus and
\* updatePaymentStatus called with any other value fail with the validation
\* error (400) and change nothing, whether or not the group or order exists
\* and whoever calls.
C24_StatusValues ==
    /\ \A g \in DOMAIN groups : groups[g].status \in {"OPEN", "CLOSED"}
    /\ \A o \in DOMAIN groupOrder : groupOrder[o].paymentStatus \in {"UNPAID", "PAID"}
    /\ (BadGroupStatus \/ BadPaymentStatus) =>
          /\ last.result = ErrInvalidStatus
          /\ HttpStatus(last.op, last.result) = 400
          /\ DB = last.pre

\* an unknown status was sent for a group that does not exist
C24_Witness == BadGroupStatus /\ last.target \notin DOMAIN groups


(***************************************************************************)
(* Deleting a group.                                                       *)
(***************************************************************************)
\* every order of the group is PAID or holds no line item
PaidOrEmpty(db, g) ==
    \A o \in OrdersOfGroup(db, g) :
        db.groupOrder[o].paymentStatus = "PAID" \/ ItemsOfOrders(db, {o}) = <<>>

\* C25: deleteGroup by the creator succeeds whenever every order of the
\* group is PAID or has no line items.
C25_DeletableWhenPaidOrEmpty ==
    (/\ last.op = "deleteGroup"
     /\ last.target \in DOMAIN last.pre.groups
     /\ last.pre.groups[last.target].creatorId = last.userId
     /\ PaidOrEmpty(last.pre, last.target))
        => /\ last.result = OK
           /\ last.target \notin DOMAIN groups


(***************************************************************************)
(* UserService.addFriend and getFriends.  friends holds the rows of the    *)
(* relation behind User.friends: <<a, b>> is there when b is among the     *)
(* friends of a.  addFriend awaits three Prisma calls, one after the       *)
(* other and outside any transaction.                                      *)
(***************************************************************************)
ErrFriendIdRequired == "friendId is required"
ErrAddSelf == "Cannot add self as friend"
ErrAlreadyFriends == "Already friends"

\* getFriends: user.friends
FriendsOf(userId) == {b \in Users : <<userId, b>> \in friends}

\* slot p goes on as c with an addFriend request
FriendStep(p, c) == calls' = [calls EXCEPT ![p] = c]

\* the argument checks and prisma.user.findFirst for an existing friendship
AddFriendFind(p, userId, friendId) ==
    LET c == NewCall("addFriend", userId, NULL, friendId)
    IN /\ Free(p)
       /\ now' = now + 1
       /\ UNCHANGED <<store, last, friends>>
       /\ FriendStep(p, IF friendId = NULL THEN Done(c, ErrFriendIdRequired)
                        ELSE IF userId = friendId THEN Done(c, ErrAddSelf)
                        ELSE IF friendId \in FriendsOf(userId) THEN Done(c, ErrAlreadyFriends)
                        ELSE [c EXCEPT !.pc = "connect"])

\* prisma.user.update({ where: { id: userId }, data: { friends: { connect: { id: friendId } } } })
AfterConnect(rows, userId, friendId) == rows \cup {<<userId, friendId>>}

\* the first update: it is rejected when friendId is no user
AddFriendConnect(p) ==
    LET c == calls[p]
    IN /\ At(p, "addFriend", "connect")
       /\ UNCHANGED <<store, now, last>>
       /\ IF c.args \notin Users
          THEN /\ friends' = friends
               /\ FriendStep(p, Done(c, ErrPrisma))
          ELSE /\ friends' = AfterConnect(friends, c.userId, c.args)
               /\ FriendStep(p, [c EXCEPT !.pc = "connectBack"])

\* the second update, of the friend's row
AddFriendConnectBack(p) ==
    LET c == calls[p]
    IN /\ At(p, "addFriend", "connectBack")
       /\ UNCHANGED <<store, now, last>>
       /\ friends' = friends \cup {<<c.args, c.userId>>}
       /\ FriendStep(p, Done(c, OK))

\* UserService.getFriends, a single read
GetFriends(userId) == Commit("getFriends", userId, NULL, <<>>, Outcome(DB, OK))

\* the friend ids a client may send: a user, an id that is no user, none
FriendIds == Users \cup {Ghost, NULL}

NextFriends ==
    \/ \E p \in Procs, u \in Users, f \in FriendIds : AddFriendFind(p, u, f)
    \/ \E p \in Procs : AddFriendConnect(p)
    \/ \E p \in Procs : AddFriendConnectBack(p)
    \/ \E u \in Users : GetFriends(u)

SpecFriends == Init /\ [][NextFriends]_vars

\* C26: whenever getFriends answers, also while addFriend calls are under
\* way, user b is among the friends of a exactly if a is among the friends
\* of b.
C26_FriendsSymmetric ==
    last.op = "getFriends" =>
        \A a, b \in Users : b \in FriendsOf(a) <=> a \in FriendsOf(b)


(***************************************************************************)
(* The failures by kind, and the status each kind is to be answered with.  *)
(***************************************************************************)
NotFoundErrors == {ErrGroupNotFound, ErrOrderNotFound}
ForbiddenErrors == {ErrNotAuthorized, ErrAccessDenied}
ValidationErrors == {ErrValidation, ErrInvalidStatus, ErrGroupIdRequired}
ConflictErrors == {ErrCannotDeleteItem, ErrCannotDeleteGroup, ErrGroupClosed}

\* the creator called updateGroup on their group without title, start or end
UpdateWithoutDetails ==
    /\ last.op = "updateGroup"
    /\ last.target \in DOMAIN last.pre.groups
    /\ last.pre.groups[last.target].creatorId = last.userId
    /\ Incomplete(last.args)

\* C27: the answer to a failed call depends on the kind of the failure:
\* not found 404, forbidden 403, validation and conflict 400, and 500 for
\* nothing but a failure of the storage layer; updateOrder without a group
\* id and updateGroup without title, start or end are validation errors.
C27_StatusByKind ==
    LET status == HttpStatus(last.op, last.result)
    IN /\ last.result \in NotFoundErrors => status = 404
       /\ last.result \in ForbiddenErrors => status = 403
       /\ last.result \in ValidationErrors \cup ConflictErrors => status = 400
       /\ status = 500 => last.result = ErrPrisma
       /\ UpdateWithoutDetails => status = 400


(***************************************************************************)
(* Row locks of the batch transactions.  prisma.$transaction([...]) sends  *)
(* its statements one after the other inside one database transaction.     *)
(* Each groupMenu.update locks the product row it writes until the         *)
(* transaction ends, and waits while another transaction holds that row;   *)
(* the deleteMany at the end locks the rows it deletes.  When two          *)
(* transactions wait for each other the database ends one of them with an  *)
(* error.                                                                  *)
(***************************************************************************)
\* slot q is inside the batch transaction of updateGroup
InBatch(q) == calls[q].op = "updateGroup" /\ calls[q].pc \in {"syncTx", "deleteTx"}

\* the product rows the transaction of slot q has locked
Held(q) == IF InBatch(q) THEN calls[q].held ELSE {}

\* the product row the next update of the batch writes, NULL when all ran
NextUpdate(p) ==
    IF ~InBatch(p) THEN NULL
    ELSE LET rest == SelectSeq(WithId(calls[p].args.products),
                               LAMBDA e : /\ e.id \in DOMAIN groupMenu
                                          /\ e.id \notin calls[p].held)
         IN IF rest = <<>> THEN NULL ELSE rest[1].id

\* the rows the next statement of the transaction of slot p locks
Needs(p) ==
    IF ~InBatch(p) THEN {}
    ELSE IF NextUpdate(p) # NULL THEN {NextUpdate(p)}
    ELSE IF calls[p].pc = "deleteTx" THEN calls[p].ids \cap DOMAIN groupMenu
    ELSE {}

WaitsFor(p, q) == p # q /\ Needs(p) \cap Held(q) # {}

\* one groupMenu.update of the batch takes its row
GroupTxUpdate(p) ==
    LET c == calls[p]
    IN /\ InBatch(p)
       /\ NextUpdate(p) # NULL
       /\ \A q \in Procs : ~WaitsFor(p, q)
       /\ UNCHANGED <<store, now, last>>
       /\ Continue(p, [c EXCEPT !.held = @ \cup {NextUpdate(p)}])

\* the rest of the batch and its commit, once every update holds its row
GroupSyncTxEnd(p) ==
    /\ NextUpdate(p) = NULL
    /\ GroupSyncTx(p)

GroupDeleteTxEnd(p) ==
    /\ NextUpdate(p) = NULL
    /\ \A q \in Procs : ~WaitsFor(p, q)
    /\ GroupDeleteTx(p)

\* two transactions wait for each other
Deadlock == \E p, q \in Procs : WaitsFor(p, q) /\ WaitsFor(q, p)

\* the database ends the transaction of slot p, which is part of a deadlock
DeadlockAbort(p) ==
    /\ \E q \in Procs : WaitsFor(p, q) /\ WaitsFor(q, p)
    /\ UNCHANGED <<store, now, last>>
    /\ Continue(p, Done(calls[p], ErrPrisma))

\* the product lists of the two orders a client may send them in
LockData ==
    {UpdateData(KFC, TRUE, ps, inv) :
        ps \in {<<Entry(1, Fries45), Entry(2, Chips45)>>,
                <<Entry(2, Chips45), Entry(1, Fries45)>>,
                <<Entry(1, Fries45)>>},
        inv \in {<<>>, <<2>>}}

\* a step of the request in slot p; the server and the database go on with
\* every request that can go on
StepOf(p) ==
    \/ OrderFind(p)
    \/ OrderCreate(p)
    \/ OrderDeleteItems(p)
    \/ OrderReadMenu(p)
    \/ OrderCommit(p)
    \/ GroupDetails(p)
    \/ GroupAddMembers(p)
    \/ GroupFindRemoved(p)
    \/ GroupDeleteRemovedItems(p)
    \/ GroupDeleteRemovedOrders(p)
    \/ GroupFindDeletable(p)
    \/ GroupUsedItem(p)
    \/ GroupReadMenu(p)
    \/ GroupTxUpdate(p)
    \/ GroupSyncTxEnd(p)
    \/ GroupDeleteTxEnd(p)
    \/ DeadlockAbort(p)

NextLocks ==
    \/ \E p \in Procs : OrderValidate(p, 2, 1, <<Item(1, "Fries", 40, 4)>>)
    \/ \E p \in Procs, data \in LockData : GroupFind(p, 1, 1, data)
    \/ \E p \in Procs : OrderFind(p)
    \/ \E p \in Procs : OrderCreate(p)
    \/ \E p \in Procs : OrderDeleteItems(p)
    \/ \E p \in Procs : OrderReadMenu(p)
    \/ \E p \in Procs : OrderCommit(p)
    \/ \E p \in Procs : GroupDetails(p)
    \/ \E p \in Procs : GroupAddMembers(p)
    \/ \E p \in Procs : GroupFindRemoved(p)
    \/ \E p \in Procs : GroupDeleteRemovedItems(p)
    \/ \E p \in Procs : GroupDeleteRemovedOrders(p)
    \/ \E p \in Procs : GroupFindDeletable(p)
    \/ \E p \in Procs : GroupUsedItem(p)
    \/ \E p \in Procs : GroupReadMenu(p)
    \/ \E p \in Procs : GroupTxUpdate(p)
    \/ \E p \in Procs : GroupSyncTxEnd(p)
    \/ \E p \in Procs : GroupDeleteTxEnd(p)
    \/ \E p \in Procs : DeadlockAbort(p)

SpecLocks == InitSteps /\ [][NextLocks]_vars /\ \A p \in Procs : WF_vars(StepOf(p))

\* the request of slot p ended inside a transaction, with an error
AbortedInTx(p) ==
    /\ InTx(p) \/ InBatch(p)
    /\ calls'[p].pc = "done"
    /\ calls'[p].result # OK

\* C28: every request that began ends, with a result or an error; no two
\* transactions ever wait for each other; and a request that ends with an
\* error inside its transaction leaves the store as that step found it.
C28_EveryCallEnds ==
    /\ \A p \in Procs : (calls[p].pc # "done") ~> (calls[p].pc = "done")
    /\ []~Deadlock
    /\ [][\A p \in Procs : AbortedInTx(p) => DB' = DB]_vars


(***************************************************************************)
(* Edits next to removals, and other groups' products.                     *)
(***************************************************************************)
\* the last call, by the creator, with registered invitees and entries whose
\* ids are products of the group, edits a product and leaves out another
\* that no line item of the group uses
EditedAndRemoved ==
    /\ CreatorUpdatedMenu
    /\ Range(last.args.invitedUserIds) \subseteq Users
    /\ KeepIds(last.args.products) \subseteq MenuOfGroup(last.pre, last.target)
    /\ Edits # {}
    /\ ProductsToDelete(last.pre, last.target, last.args.products) # {}
    /\ ~UsedItem(last.pre, last.target,
                 ProductsToDelete(last.pre, last.target, last.args.products))

\* C29: an updateGroup that changes the name or price of product P and
\* removes another, unused product succeeds, and afterwards every line item
\* that was linked to P, and every unlinked one that carried P's old name,
\* has P's new name and price, as after a call that only edits P.
C29_PropagatedNextToRemoval ==
    EditedAndRemoved =>
        /\ last.result = OK
        /\ \A e \in Edits :
             \A o \in OrdersOfGroup(DB, last.target) \cap OrdersOfGroup(last.pre, last.target) :
                \A k \in 1..Len(Lines(last.pre, o)) :
                    Matched(o, k, e) =>
                        /\ k <= Len(Lines(DB, o))
                        /\ Lines(DB, o)[k].name = e.name
                        /\ Lines(DB, o)[k].price = e.price


\* the groups, other than the target of the last call, that existed before it
OtherGroups == DOMAIN last.pre.groups \ {last.target}

\* C30: updateGroup on a group leaves every other group's data alone:
\* whatever ids the product entries carry, each other group has the same
\* products with the same name and price, and its orders the same line
\* items, after the call as before it.
C30_OtherGroupsUntouched ==
    last.op = "updateGroup" =>
        \A h \in OtherGroups :
            /\ MenuOfGroup(DB, h) = MenuOfGroup(last.pre, h)
            /\ \A m \in MenuOfGroup(last.pre, h) :
                   DB.groupMenu[m] = last.pre.groupMenu[m]
            /\ OrdersOfGroup(DB, h) = OrdersOfGroup(last.pre, h)
            /\ \A o \in OrdersOfGroup(last.pre, h) : Lines(DB, o) = Lines(last.pre, o)


(***************************************************************************)
(* Legacy items: the link is backfilled, and exchanged names do not        *)
(* cascade.                                                                *)
(***************************************************************************)
\* the last call exchanges the names of the two stored products of e1 and e2
Exchanged(e1, e2) ==
    /\ e1.id # e2.id
    /\ last.pre.groupMenu[e1.id].name # last.pre.groupMenu[e2.id].name
    /\ e1.name = last.pre.groupMenu[e2.id].name
    /\ e2.name = last.pre.groupMenu[e1.id].name

\* line k of order o had no product link and carried the stored name of e's product
Legacy(o, k, e) ==
    /\ Lines(last.pre, o)[k].menuId = NULL
    /\ Lines(last.pre, o)[k].name = last.pre.groupMenu[e.id].name

\* C31: after a successful updateGroup that edits product P, every line item
\* of the group that had no product link and carried P's old name is linked
\* to P; and when the call exchanges the names of two products, each line
\* item has the new name and price of the product it matched before the
\* call, not the other's.
C31_BackfilledNoCascade ==
    (CreatorUpdatedMenu /\ last.result = OK) =>
        \A e \in Edits :
            \A o \in OrdersOfGroup(DB, last.target) \cap OrdersOfGroup(last.pre, last.target) :
                \A k \in 1..Len(Lines(last.pre, o)) :
                    /\ Legacy(o, k, e) =>
                          /\ k <= Len(Lines(DB, o))
                          /\ Lines(DB, o)[k].menuId = e.id
                    /\ (Matched(o, k, e) /\ \E f \in Edits : Exchanged(e, f)) =>
                          /\ k <= Len(Lines(DB, o))
                          /\ Lines(DB, o)[k].name = e.name
                          /\ Lines(DB, o)[k].price = e.price


(***************************************************************************)
(* deleteGroup and updatePaymentStatus step by step, next to updateGroup   *)
(* and updateOrder on the same group.  deleteGroup makes three reads, each *)
(* committed alone, and then one $transaction of four statements.          *)
(***************************************************************************)
\* the $transaction of deleteGroup with the order ids read before it: a line
\* item left on an order of the group, or a group already gone, fails a
\* statement and the transaction rolls back
DeleteGroupTxWith(db, groupId, orderIds) ==
    LET noItems == [db EXCEPT !.userOrder =
                        SelectSeq(@, LAMBDA it : it.groupOrderId \notin orderIds)]
        noOrders == [noItems EXCEPT !.groupOrder = DropRows(@, OrdersOfGroup(db, groupId))]
        noMenu == MenuDelete(noOrders, MenuOfGroup(db, groupId))
    IN IF \/ \E it \in Range(noItems.userOrder) : it.groupOrderId \in OrdersOfGroup(db, groupId)
          \/ groupId \notin DOMAIN db.groups
       THEN Outcome(db, ErrPrisma)
       ELSE Outcome([noMenu EXCEPT !.groups = DropRows(@, {groupId})], OK)

\* prisma.group.findUnique and the ownership check, for a new request
DeleteFind(p, userId, groupId) ==
    LET c == NewCall("deleteGroup", userId, groupId, <<>>)
    IN /\ Free(p)
       /\ now' = now + 1
       /\ UNCHANGED <<store, last>>
       /\ Continue(p, IF groupId \notin DOMAIN groups THEN Done(c, ErrGroupNotFound)
                      ELSE IF groups[groupId].creatorId # userId
                           THEN Done(c, ErrNotAuthorized)
                      ELSE [c EXCEPT !.pc = "checkUnpaid"])

\* prisma.groupOrder.findFirst({ where: { groupId, paymentStatus: 'UNPAID' } })
DeleteCheckUnpaid(p) ==
    LET c == calls[p]
    IN /\ At(p, "deleteGroup", "checkUnpaid")
       /\ UNCHANGED <<store, now, last>>
       /\ Continue(p, IF HasUnpaidOrder(DB, c.groupId) THEN Done(c, ErrCannotDeleteGroup)
                      ELSE [c EXCEPT !.pc = "readOrders"])

\* prisma.groupOrder.findMany({ where: { groupId }, select: { id: true } })
DeleteReadOrders(p) ==
    LET c == calls[p]
    IN /\ At(p, "deleteGroup", "readOrders")
       /\ UNCHANGED <<store, now, last>>
       /\ Continue(p, [c EXCEPT !.pc = "tx", !.ids = OrdersOfGroup(DB, c.groupId)])

\* the $transaction; its first deleteMany waits for the rows that a
\* transaction of updateOrder holds
DeleteTx(p) ==
    LET c == calls[p]
        out == DeleteGroupTxWith(DB, c.groupId, c.ids)
    IN /\ At(p, "deleteGroup", "tx")
       /\ Untouched(p, SelectSeq(userOrder, LAMBDA r : r.groupOrderId \notin c.ids))
       /\ UNCHANGED <<now, last>>
       /\ SetStore(out.db)
       /\ Continue(p, Done(c, out.result))

\* the status check, prisma.groupOrder.findUnique with its group and the
\* ownership check, for a new request
PaymentFind(p, userId, orderId, status) ==
    LET c == [NewCall("updatePaymentStatus", userId, NULL, status) EXCEPT !.order = orderId]
    IN /\ Free(p)
       /\ now' = now + 1
       /\ UNCHANGED <<store, last>>
       /\ Continue(p, IF status \notin {"PAID", "UNPAID"} THEN Done(c, ErrInvalidStatus)
                      ELSE IF orderId \notin DOMAIN groupOrder THEN Done(c, ErrOrderNotFound)
                      ELSE IF groups[groupOrder[orderId].groupId].creatorId # userId
                           THEN Done(c, ErrNotAuthorized)
                      ELSE [c EXCEPT !.pc = "update"])

\* prisma.groupOrder.update; an order that is gone fails it
PaymentUpdate(p) ==
    LET c == calls[p]
    IN /\ At(p, "updatePaymentStatus", "update")
       /\ UNCHANGED <<groups, groupMenu, userOrder, nextId, now, last>>
       /\ IF c.order \in DOMAIN groupOrder
          THEN /\ groupOrder' = [groupOrder EXCEPT ![c.order].paymentStatus = c.args]
               /\ Continue(p, Done(c, OK))
          ELSE /\ UNCHANGED groupOrder
               /\ Continue(p, Done(c, ErrPrisma))

\* the seeds, and the seeds after the creator marked user 2's order PAID
PaidSeeds(dbs) == dbs \cup {UpdatePaymentStatusRun(db, 1, 2, "PAID").db : db \in dbs}

InitDelete == InitFrom({WithIds(db) : db \in PaidSeeds(WithSeedOrders(StepSeedGroups))})

\* updateGroup requests that only change the membership
DeleteData == {UpdateData(KFC, FALSE, <<>>, inv) : inv \in {<<>>, <<2>>}}

NextDelete ==
    \/ \E p \in Procs, u \in Users : DeleteFind(p, u, 1)
    \/ \E p \in Procs : DeleteCheckUnpaid(p)
    \/ \E p \in Procs : DeleteReadOrders(p)
    \/ \E p \in Procs : DeleteTx(p)
    \/ \E p \in Procs, o \in {1, 2}, st \in {"PAID", "UNPAID"} : PaymentFind(p, 1, o, st)
    \/ \E p \in Procs : PaymentUpdate(p)
    \/ \E p \in Procs, u \in Users, items \in StepOrders : OrderValidate(p, u, 1, items)
    \/ \E p \in Procs : OrderFind(p)
    \/ \E p \in Procs : OrderCreate(p)
    \/ \E p \in Procs : OrderDeleteItems(p)
    \/ \E p \in Procs : OrderReadMenu(p)
    \/ \E p \in Procs : OrderCommit(p)
    \/ \E p \in Procs, data \in DeleteData : GroupFind(p, 1, 1, data)
    \/ \E p \in Procs : GroupDetails(p)
    \/ \E p \in Procs : GroupAddMembers(p)
    \/ \E p \in Procs : GroupFindRemoved(p)
    \/ \E p \in Procs : GroupDeleteRemovedItems(p)
    \/ \E p \in Procs : GroupDeleteRemovedOrders(p)

SpecDelete == InitDelete /\ [][NextDelete]_vars

\* C32: whatever else runs next to deleteGroup, a step that removes a group
\* finds every order of the group PAID: no order that is UNPAID at that
\* moment is removed with the group.
C32_DeletedOnlyWhenPaid ==
    [][\A g \in DOMAIN groups : g \notin DOMAIN groups' => ~HasUnpaidOrder(DB, g)]_vars


(***************************************************************************)
(* updateGroup on a CLOSED group.                                          *)
(***************************************************************************)
\* the last call was updateGroup by the creator of a group stored as CLOSED
UpdatedClosed ==
    /\ last.op = "updateGroup"
    /\ last.target \in DOMAIN last.pre.groups
    /\ last.pre.groups[last.target].creatorId = last.userId
    /\ last.pre.groups[last.target].status = "CLOSED"

\* the same call on the same store with the group OPEN
OnOpen ==
    UpdateGroupRun([last.pre EXCEPT !.groups[last.target].status = "OPEN"],
                   last.userId, last.target, last.args, now)

\* C33: updateGroup by the creator does not look at the status: on a CLOSED
\* group it is never refused as closed, the group stays CLOSED, and the call
\* ends and writes as it would on the same group when OPEN - member removal
\* and propagation to line items included.
C33_ClosedStillUpdatable ==
    UpdatedClosed =>
        /\ last.result # ErrGroupClosed
        /\ last.result = OnOpen.result
        /\ DB = [OnOpen.db EXCEPT !.groups[last.target].status = "CLOSED"]

\* a successful updateGroup on a CLOSED group removed a member's order that
\* had line items and rewrote the price of a line item that stayed
C33_Witness ==
    /\ UpdatedClosed
    /\ last.result = OK
    /\ \E o \in OrdersOfGroup(last.pre, last.target) \ OrdersOfGroup(DB, last.target) :
           Lines(last.pre, o) # <<>>
    /\ \E o \in OrdersOfGroup(last.pre, last.target) \cap OrdersOfGroup(DB, last.target) :
           \E k \in 1..Len(Lines(last.pre, o)) :
               /\ k <= Len(Lines(DB, o))
               /\ Lines(DB, o)[k].price # Lines(last.pre, o)[k].price


(***************************************************************************)
(* What updateOrder leaves alone.                                          *)
(***************************************************************************)
\* order o of the store before the last call is an order of its caller in its group
OwnOrder(o) ==
    /\ last.pre.groupOrder[o].userId = last.userId
    /\ last.pre.groupOrder[o].groupId = last.target

\* C34: updateOrder changes the contents of its caller's order only: every
\* order keeps its paymentStatus (a PAID order stays PAID when its items are
\* replaced), the orders of the others and their line items are as before,
\* an order that is new belongs to the caller, and the products and the
\* groups (title, dates, status) are as before.
C34_OnlyOwnOrderChanges ==
    last.op = "updateOrder" =>
        /\ groups = last.pre.groups
        /\ groupMenu = last.pre.groupMenu
        /\ \A o \in DOMAIN last.pre.groupOrder :
              /\ o \in DOMAIN groupOrder
              /\ groupOrder[o].paymentStatus = last.pre.groupOrder[o].paymentStatus
              /\ ~OwnOrder(o) => /\ groupOrder[o] = last.pre.groupOrder[o]
                                 /\ Lines(DB, o) = Lines(last.pre, o)
        /\ \A o \in DOMAIN groupOrder \ DOMAIN last.pre.groupOrder :
              /\ groupOrder[o].userId = last.userId
              /\ groupOrder[o].groupId = last.target

\* a successful updateOrder replaced the items of an order that was PAID,
\* while another member's order had line items
C34_Witness ==
    /\ last.op = "updateOrder"
    /\ last.result = OK
    /\ \E o \in DOMAIN last.pre.groupOrder :
          /\ OwnOrder(o)
          /\ last.pre.groupOrder[o].paymentStatus = "PAID"
          /\ Lines(DB, o) # Lines(last.pre, o)
          /\ Lines(DB, o) # <<>>
    /\ \E o \in DOMAIN last.pre.groupOrder : ~OwnOrder(o) /\ Lines(last.pre, o) # <<>>


(***************************************************************************)
(* Request bodies of updateGroup that lack a field.                        *)
(***************************************************************************)
\* a request body without invitedUserIds
WithoutInvites(data) == [f \in DOMAIN data \ {"invitedUserIds"} |-> data[f]]

\* bodies with and without a product list, with an empty one, with and
\* without an invite list
AbsentData ==
    LET full == {UpdateData(KFC, hp, ps, inv) :
                    hp \in BOOLEAN, ps \in {<<>>}, inv \in {<<>>, <<2>>}}
                \cup {UpdateData(KFC, TRUE, <<Entry(1, Fries45)>>, <<2>>)}
    IN full \cup {WithoutInvites(d) : d \in full}

NextAbsent ==
    \/ Running /\ \E d \in AbsentData : UpdateGroup(1, 1, d)
    \/ Running /\ \E u \in Users, items \in MenuOrders : UpdateOrder(u, 1, items)

SpecAbsent == Init /\ [][NextAbsent]_vars

\* the last call was updateGroup by the creator, with dates and registered invitees
CreatorUpdated ==
    /\ last.op = "updateGroup"
    /\ last.target \in DOMAIN last.pre.groups
    /\ last.pre.groups[last.target].creatorId = last.userId
    /\ ~InvalidDates(last.args)
    /\ Range(InvitedOrEmpty(last.args)) \subseteq Users

\* the orders of the group, before the call, of the members who stay
Staying ==
    {o \in OrdersOfGroup(last.pre, last.target) :
        last.pre.groupOrder[o].userId \in {last.userId} \cup Range(InvitedOrEmpty(last.args))}

\* some product of the group is named or linked by a line item of a member who stays
MenuInUse ==
    \E o \in Staying : \E k \in 1..Len(Lines(last.pre, o)) :
        \E m \in MenuOfGroup(last.pre, last.target) :
            \/ Lines(last.pre, o)[k].menuId = m
            \/ Lines(last.pre, o)[k].name = last.pre.groupMenu[m].name

\* C35: a call without a products list succeeds and leaves the menu and the
\* line items of the members who stay as they were; a call without
\* invitedUserIds removes the order and the line items of every member but
\* the creator; a call with an empty products list deletes every product of
\* the group when none is in use and fails with a conflict otherwise.
C35_AbsentArguments ==
    CreatorUpdated =>
        /\ ~last.args.hasProducts =>
              /\ last.result = OK
              /\ groupMenu = last.pre.groupMenu
              /\ \A o \in Staying : o \in DOMAIN groupOrder /\ Lines(DB, o) = Lines(last.pre, o)
        /\ "invitedUserIds" \notin DOMAIN last.args =>
              /\ \A o \in OrdersOfGroup(DB, last.target) : groupOrder[o].userId = last.userId
              /\ \A o \in OrdersOfGroup(last.pre, last.target) \ Staying :
                    /\ o \notin DOMAIN groupOrder
                    /\ \A it \in Range(userOrder) : it.groupOrderId # o
        /\ (last.args.hasProducts /\ last.args.products = <<>>) =>
              IF MenuInUse
              THEN /\ last.result = ErrCannotDeleteItem
                   /\ HttpStatus(last.op, last.result) = 400
                   /\ groupMenu = last.pre.groupMenu
              ELSE /\ last.result = OK
                   /\ MenuOfGroup(DB, last.target) = {}

\* a call with neither a products list nor invitedUserIds succeeded on a
\* group with products, and removed a member's order that had line items
C35_Witness ==
    /\ CreatorUpdated
    /\ ~last.args.hasProducts
    /\ "invitedUserIds" \notin DOMAIN last.args
    /\ last.result = OK
    /\ MenuOfGroup(DB, last.target) # {}
    /\ \E o \in OrdersOfGroup(last.pre, last.target) \ Staying : Lines(last.pre, o) # <<>>


(***************************************************************************)
(* The member sync comes before the in-use check.                          *)
(***************************************************************************)
\* the last call, by the creator, with registered invitees and entries whose
\* ids are stored products, leaves out a stored product of the group
CreatorOmitted ==
    /\ CreatorUpdatedMenu
    /\ Range(last.args.invitedUserIds) \subseteq Users
    /\ KeepIds(last.args.products) \subseteq DOMAIN last.pre.groupMenu
    /\ Omitted # {}

\* C36: in one updateGroup the members are removed before the products are
\* tested for use: when the line items referencing the products left out
\* all belong to members the call removes, the products are deleted and the
\* call succeeds; when one belongs to the creator or to a member who stays,
\* the call fails with "cannot delete item" and the products remain.
C36_RemovedMembersDoNotBlock ==
    CreatorOmitted =>
        IF \E p \in Omitted : Referenced(last.pre, last.target, p, Kept)
        THEN /\ last.result = ErrCannotDeleteItem
             /\ Omitted \subseteq DOMAIN groupMenu
        ELSE /\ last.result = OK
             /\ Omitted \cap DOMAIN groupMenu = {}

\* a call succeeded and deleted a product that a line item of a member it
\* removed was linked to
C36_Witness ==
    /\ CreatorOmitted
    /\ last.result = OK
    /\ \E p \in Omitted :
          /\ Referenced(last.pre, last.target, p, AllUserIds \ Kept)
          /\ p \notin DOMAIN groupMenu


(***************************************************************************)
(* Closing and opening again: every behaviour starts with group 1 CLOSED.  *)
(***************************************************************************)
InitToggle == InitFrom({UpdateGroupStatusRun(db, 1, 1, "CLOSED").db : db \in SeedDBs})

NextToggle ==
    \/ Running /\ \E u \in Users, st \in StatusInputs : UpdateGroupStatus(u, 1, st)
    \/ Running /\ \E u \in Users, items \in MenuOrders : UpdateOrder(u, 1, items)

SpecToggle == InitToggle /\ [][NextToggle]_vars

\* the last call was updateGroupStatus to OPEN or CLOSED by the group's creator
CreatorSetStatus ==
    /\ last.op = "updateGroupStatus"
    /\ last.args \in {"OPEN", "CLOSED"}
    /\ last.target \in DOMAIN last.pre.groups
    /\ last.pre.groups[last.target].creatorId = last.userId

\* the last call was updateOrder by a member of a group that was OPEN
MemberOrderedOpen ==
    /\ last.op = "updateOrder"
    /\ last.target \in DOMAIN last.pre.groups
    /\ CanAccess(last.pre, last.userId, last.target)
    /\ last.pre.groups[last.target].status = "OPEN"

\* C37: the status goes both ways: updateGroupStatus by the creator succeeds
\* from CLOSED to OPEN as from OPEN to CLOSED and changes the status and
\* nothing else (nothing at all when the group has that status already);
\* and updateOrder by a member of a group that was opened again succeeds and
\* stores the submitted items.
C37_StatusGoesBothWays ==
    /\ CreatorSetStatus =>
          /\ last.result = OK
          /\ DB = [last.pre EXCEPT !.groups[last.target].status = last.args]
    /\ MemberOrderedOpen =>
          /\ last.result = OK
          /\ \E o \in FoundOrders(DB, last.userId, last.target) :
                Len(Lines(DB, o)) = Len(last.args)

\* user 2 submitted items with success to a group that was CLOSED at the
\* start and that the call before had opened again
C37_Witness ==
    /\ MemberOrderedOpen
    /\ now = 2
    /\ last.userId = 2
    /\ last.args # <<>>
    /\ last.result = OK


(***************************************************************************)
(* Removing a member and inviting them again: every behaviour starts with  *)
(* user 2 a member of group 1 whose order has line items and is PAID.      *)
(***************************************************************************)
InitRevoke ==
    InitFrom({UpdatePaymentStatusRun(db, 1, 2, "PAID").db :
                 db \in {d \in SeedDBs : /\ FoundOrders(d, 2, 1) = {2}
                                         /\ ItemsOfOrders(d, {2}) # <<>>}})

NextRevoke ==
    \/ Running /\ \E inv \in {<<>>, <<2>>}, hp \in BOOLEAN :
           UpdateGroup(1, 1, UpdateData(KFC, hp, IF hp THEN <<Entry(1, Fries45)>> ELSE <<>>, inv))
    \/ Running /\ \E u \in Users, items \in MenuOrders : UpdateOrder(u, 1, items)
    \/ Running /\ \E u \in Users : GetGroupSummary(u, 1)
    \/ Running /\ \E u \in Users : GetDashboardGroups(u)

SpecRevoke == InitRevoke /\ [][NextRevoke]_vars

\* user u neither created group g nor has an order in it, in the store db
Outside(db, u, g) == db.groups[g].creatorId # u /\ FoundOrders(db, u, g) = {}

\* C38: an updateGroup that leaves a member out removes their order and line
\* items; a user with no order in a group they did not create is denied
\* updateOrder and getGroupSummary and does not get the group from
\* getDashboardGroups; and a user invited while they have no order gets one
\* order, UNPAID and without line items.
C38_RevokedAndReset ==
    /\ (last.op = "updateGroup" /\ last.result = OK) =>
          \A u \in Users \ {last.userId} :
              IF u \in Range(InvitedOrEmpty(last.args))
              THEN FoundOrders(last.pre, u, last.target) = {} =>
                      \E o \in DOMAIN groupOrder :
                          /\ FoundOrders(DB, u, last.target) = {o}
                          /\ groupOrder[o].paymentStatus = "UNPAID"
                          /\ Lines(DB, o) = <<>>
              ELSE /\ FoundOrders(DB, u, last.target) = {}
                   /\ \A o \in FoundOrders(last.pre, u, last.target) :
                         \A it \in Range(userOrder) : it.groupOrderId # o
    /\ (/\ last.op \in {"updateOrder", "getGroupSummary"}
        /\ last.target \in DOMAIN last.pre.groups
        /\ Outside(last.pre, last.userId, last.target)) =>
          /\ last.result = ErrAccessDenied
          /\ DB = last.pre
    /\ last.op = "getDashboardGroups" =>
          \A g \in DOMAIN groups : Outside(DB, last.userId, g) => g \notin Viewed

\* user 2, whose order was PAID and had line items at the start, was left
\* out by the first call and invited again by the second: the order they
\* have now is another one, UNPAID and empty
C38_Witness ==
    /\ now = 2
    /\ last.op = "updateGroup"
    /\ last.result = OK
    /\ 2 \in Range(InvitedOrEmpty(last.args))
    /\ FoundOrders(last.pre, 2, 1) = {}
    /\ \E o \in FoundOrders(DB, 2, 1) :
          /\ o # 2
          /\ groupOrder[o].paymentStatus = "UNPAID"
          /\ Lines(DB, o) = <<>>


(***************************************************************************)
(* Referential integrity.                                                  *)
(***************************************************************************)
\* C39: in every reachable state every line item belongs to a stored order,
\* every order and every product belongs to a stored group, and every line
\* item with a product link points at a stored product of the group of the
\* item's order.
C39_ReferentialIntegrity ==
    /\ \A i \in DOMAIN userOrder : userOrder[i].groupOrderId \in DOMAIN groupOrder
    /\ \A o \in DOMAIN groupOrder : groupOrder[o].groupId \in DOMAIN groups
    /\ \A m \in DOMAIN groupMenu : groupMenu[m].groupId \in DOMAIN groups
    /\ \A i \in DOMAIN userOrder :
          userOrder[i].menuId # NULL =>
              /\ userOrder[i].menuId \in DOMAIN groupMenu
              /\ groupMenu[userOrder[i].menuId].groupId
                     = groupOrder[userOrder[i].groupOrderId].groupId

\* an updateGroup deleted products and an updateOrder that asked for one of
\* them by id ran next to it; both succeeded, and the rows the order wrote
\* are stored
C39_Witness ==
    \E p, q \in Procs :
        /\ At(p, "updateGroup", "done") /\ calls[p].result = OK
        /\ calls[p].ids # {} /\ calls[p].ids \cap DOMAIN groupMenu = {}
        /\ At(q, "updateOrder", "done") /\ calls[q].result = OK
        /\ \E k \in DOMAIN calls[q].args : calls[q].args[k].productId \in calls[p].ids
        /\ \E i \in DOMAIN userOrder : userOrder[i].id[1] = calls[q].t

====
